---------------------------- MODULE Spec2Model ----------------------------
(***************************************************************************)
(* Model of the wxom weather decoding and policy engine:                   *)
(*   - the report field extractors of assets/app.js,                       *)
(*   - the severity scorer and alert classifier (deriveStation),           *)
(*   - the OM-A/OM-B policy layer (computeOmFlags) with its crosswind      *)
(*     geometry.                                                           *)
(* A report text is a sequence of one-character strings; every regular     *)
(* expression of the source is an operator over such sequences.  An absent *)
(* value (null) is the empty sequence <<>>, a present value v is <<v>>.    *)
(***************************************************************************)
EXTENDS Integers, Sequences, FiniteSets, TLC

VARIABLES data, runwaysJson, runwaysMap, stations, pc,
          dataRest, rolesMap, view, rows, localStorage,
          lastGeneratedAt, now, airports, roles

\* the dashboard apart from its first station, and the Stats and Settings pages
listVars == <<dataRest, rolesMap, view, rows, localStorage>>
otherPages == <<lastGeneratedAt, now, airports, roles>>

vars == <<data, runwaysJson, runwaysMap, stations, pc,
          dataRest, rolesMap, view, rows, localStorage,
          lastGeneratedAt, now, airports, roles>>

(***************************************************************************)
(* Bounds of the model.                                                    *)
(***************************************************************************)
MaxMetarToks == 2      \* tokens of a generated METAR body
MaxTafToks == 1        \* tokens of a generated TAF body

(***************************************************************************)
(* Optional values.                                                        *)
(***************************************************************************)
None == <<>>
Some(v) == <<v>>
IsNum(x) == x # <<>>

\* Math.min(...vals) / Math.max(...vals) over a non-empty array
MinOf(vals) == CHOOSE v \in {vals[i] : i \in 1..Len(vals)} :
                 \A j \in 1..Len(vals) : v <= vals[j]
MaxOf(vals) == CHOOSE v \in {vals[i] : i \in 1..Len(vals)} :
                 \A j \in 1..Len(vals) : v >= vals[j]
Max2(a, b) == IF a >= b THEN a ELSE b

\* the element of a one-element set: The({e : x \in {v}}) is e with x
\* standing for the value v, which is computed once
The(S) == CHOOSE x \in S : TRUE

\* the position of the first match among the match positions S, 0 when none
FirstOf(S) == The({ IF T = {} THEN 0 ELSE CHOOSE k \in T : \A j \in T : k <= j :
                    T \in {S} })

(***************************************************************************)
(* Characters, String.prototype.toUpperCase and the regexp classes \d, \w, *)
(* \s and \b.                                                              *)
(***************************************************************************)
DigitChars == <<"0","1","2","3","4","5","6","7","8","9">>
UpperChars == <<"A","B","C","D","E","F","G","H","I","J","K","L","M",
                "N","O","P","Q","R","S","T","U","V","W","X","Y","Z">>
LowerChars == <<"a","b","c","d","e","f","g","h","i","j","k","l","m",
                "n","o","p","q","r","s","t","u","v","w","x","y","z">>
DigitSet == {DigitChars[i] : i \in 1..10}
UpperSet == {UpperChars[i] : i \in 1..26}
LowerSet == {LowerChars[i] : i \in 1..26}

IsDigit(c) == c \in DigitSet
IsWordChar(c) == c \in DigitSet \/ c \in UpperSet \/ c \in LowerSet \/ c = "_"

toUpperCase(s) ==
  [i \in 1..Len(s) |->
     IF s[i] \in LowerSet
       THEN UpperChars[CHOOSE k \in 1..26 : LowerChars[k] = s[i]]
       ELSE s[i]]

\* parseInt(digits, 10) of a run of decimal digits
RECURSIVE parseInt(_)
parseInt(ds) ==
  IF ds = <<>> THEN 0
  ELSE parseInt(SubSeq(ds, 1, Len(ds) - 1)) * 10
         + ((CHOOSE k \in 1..10 : DigitChars[k] = ds[Len(ds)]) - 1)

\* s[i], or "" (no character) outside the text
CharAt(s, i) == IF i >= 1 /\ i <= Len(s) THEN s[i] ELSE ""

\* \b at the gap before position i (1 .. Len(s)+1)
WordBoundary(s, i) == IsWordChar(CharAt(s, i - 1)) # IsWordChar(CharAt(s, i))

\* the literal lit occurs in s at position i
LitAt(s, i, lit) ==
  /\ i >= 1
  /\ i + Len(lit) - 1 <= Len(s)
  /\ \A k \in 1..Len(lit) : s[i + k - 1] = lit[k]

\* n decimal digits occur in s at position i
DigitsAt(s, i, n) ==
  /\ i >= 1
  /\ i + n - 1 <= Len(s)
  /\ \A k \in 0..(n-1) : IsDigit(s[i + k])

\* /\bLIT\b/.test(s)
TestWord(s, lit) ==
  \E i \in 1..Len(s) :
    LitAt(s, i, lit) /\ WordBoundary(s, i) /\ WordBoundary(s, i + Len(lit))

\* /LIT\b/.test(s)   (no boundary required in front: /\+SN\b/, /CB\b/)
TestSuffixWord(s, lit) ==
  \E i \in 1..Len(s) : LitAt(s, i, lit) /\ WordBoundary(s, i + Len(lit))

\* t.includes(needle)
Includes(t, needle) == \E i \in 1..Len(t) : LitAt(t, i, needle)

\* String(raw).trim().split(/\s+/) for a text whose only white space is " "
RECURSIVE SplitWs(_)
SplitWs(s) ==
  IF s = <<>> THEN <<>>
  ELSE IF s[1] = " " THEN SplitWs(Tail(s))
  ELSE LET n == IF \E i \in 1..Len(s) : s[i] = " "
                  THEN (CHOOSE i \in 1..Len(s) :
                          s[i] = " " /\ \A j \in 1..(i-1) : s[j] # " ") - 1
                  ELSE Len(s)
       IN <<SubSeq(s, 1, n)>> \o SplitWs(SubSeq(s, n + 1, Len(s)))

\* toks.join(" ")
RECURSIVE JoinSp(_)
JoinSp(toks) ==
  IF toks = <<>> THEN <<>>
  ELSE IF Len(toks) = 1 THEN toks[1]
  ELSE toks[1] \o <<" ">> \o JoinSp(Tail(toks))

(***************************************************************************)
(* Field extractors of assets/app.js.                                      *)
(***************************************************************************)
AllDigits(t) == Len(t) > 0 /\ \A k \in 1..Len(t) : IsDigit(t[k])

\* Math.round(num/den * 1609.34) for non-negative integers, den > 0
RoundMiles(num, den) == (2 * num * 160934 + 100 * den) \div (200 * den)

\* t.replace(/^M/, "")
StripM(t) == IF CharAt(t, 1) = "M" THEN Tail(t) ELSE t

\* position of the "/" of a token, 0 if none
SlashPos(t) == IF \E i \in 1..Len(t) : t[i] = "/"
                 THEN CHOOSE i \in 1..Len(t) :
                        t[i] = "/" /\ \A j \in 1..(i-1) : t[j] # "/"
                 ELSE 0

\* /^M?\d+\/\d+SM$/.test(t)
IsFracSM(t) ==
  LET b == StripM(t)
      p == SlashPos(b)
  IN /\ p > 1
     /\ Len(b) >= p + 3
     /\ AllDigits(SubSeq(b, 1, p - 1))
     /\ AllDigits(SubSeq(b, p + 1, Len(b) - 2))
     /\ LitAt(b, Len(b) - 1, <<"S","M">>)
FracNum(t) == LET b == StripM(t) IN parseInt(SubSeq(b, 1, SlashPos(b) - 1))
FracDen(t) == LET b == StripM(t) IN parseInt(SubSeq(b, SlashPos(b) + 1, Len(b) - 2))

\* /^\d{4}(?:[A-Z]{1,4})?$/.test(t)
IsIcaoVis(t) ==
  /\ Len(t) >= 4 /\ Len(t) <= 8
  /\ DigitsAt(t, 1, 4)
  /\ \A k \in 5..Len(t) : t[k] \in UpperSet

\* /^P\d+SM$/.test(t)  and  /^M?\d+SM$/.test(t)
IsPlusSM(t) ==
  /\ Len(t) >= 4 /\ t[1] = "P"
  /\ AllDigits(SubSeq(t, 2, Len(t) - 2))
  /\ LitAt(t, Len(t) - 1, <<"S","M">>)
IsWholeSM(t) ==
  LET b == StripM(t)
  IN /\ Len(b) >= 3
     /\ AllDigits(SubSeq(b, 1, Len(b) - 2))
     /\ LitAt(b, Len(b) - 1, <<"S","M">>)

\* the token loop shared by parseVisibilityMeters and
\* extractAllVisibilityMetersFromTAF: the values added, in token order
RECURSIVE VisTokenScan(_, _)
VisTokenScan(toks, idx) ==
  IF idx > Len(toks) THEN <<>>
  ELSE
    LET t0 == toUpperCase(toks[idx])
        t1 == IF idx + 1 <= Len(toks) THEN toUpperCase(toks[idx + 1]) ELSE <<>>
    IN IF AllDigits(t0) /\ idx + 1 <= Len(toks) /\ IsFracSM(t1) /\ FracDen(t1) # 0
         THEN <<RoundMiles(parseInt(t0) * FracDen(t1) + FracNum(t1), FracDen(t1))>>
                \o VisTokenScan(toks, idx + 2)
       ELSE IF IsFracSM(t0)
         THEN (IF FracDen(t0) # 0
                 THEN <<RoundMiles(FracNum(t0), FracDen(t0))>> ELSE <<>>)
                \o VisTokenScan(toks, idx + 1)
       ELSE IF Includes(t0, <<"/">>)     \* covers the validity-range and RVR skips
         THEN VisTokenScan(toks, idx + 1)
       ELSE IF IsIcaoVis(t0)
         THEN LET v == parseInt(SubSeq(t0, 1, 4))
              IN <<IF v = 9999 THEN 10000 ELSE v>> \o VisTokenScan(toks, idx + 1)
       ELSE IF IsPlusSM(t0)
         THEN <<RoundMiles(parseInt(SubSeq(t0, 2, Len(t0) - 2)), 1)>>
                \o VisTokenScan(toks, idx + 1)
       ELSE IF IsWholeSM(t0)
         THEN LET b == StripM(t0)
              IN <<RoundMiles(parseInt(SubSeq(b, 1, Len(b) - 2)), 1)>>
                   \o VisTokenScan(toks, idx + 1)
       ELSE VisTokenScan(toks, idx + 1)

parseVisibilityMeters(raw) ==
  IF raw = <<>> THEN None
  ELSE IF TestWord(raw, <<"C","A","V","O","K">>) THEN Some(10000)
  ELSE LET vals == VisTokenScan(SplitWs(raw), 1)
       IN IF vals = <<>> THEN None ELSE Some(MinOf(vals))

\* extractAllVisibilityMetersFromTAF stopping at the first visibility group
extractAllVisibilityMetersFromTAF_FirstGroup(raw) ==
  IF raw = <<>> THEN <<>>
  ELSE LET all == (IF TestWord(raw, <<"C","A","V","O","K">>) THEN <<10000>> ELSE <<>>)
                    \o VisTokenScan(SplitWs(raw), 1)
       IN IF all = <<>> THEN <<>> ELSE <<all[1]>>

extractAllVisibilityMetersFromTAF(raw) ==
  IF raw = <<>> THEN <<>>
  ELSE (IF TestWord(raw, <<"C","A","V","O","K">>) THEN <<10000>> ELSE <<>>)
         \o VisTokenScan(SplitWs(raw), 1)

\* one match of /\bR\d{2}[LRC]?\/([PM]?)(\d{4})(?:V([PM]?)(\d{4}))?([UDN])?(FT)?\b/
\* starting at position i: the values it pushes (<<>> when it does not match).
\* Every optional part is followed by a character class disjoint from it, so
\* the greedy choice is the only one that can match.
RvrMatchAt(s, i) ==
  LET pSlash == IF CharAt(s, i + 3) \in {"L","R","C"} THEN i + 4 ELSE i + 3
      pV1 == IF CharAt(s, pSlash + 1) \in {"P","M"} THEN pSlash + 2 ELSE pSlash + 1
      pV == pV1 + 4
      pV2 == IF CharAt(s, pV + 1) \in {"P","M"} THEN pV + 2 ELSE pV + 1
      hasV == CharAt(s, pV) = "V" /\ DigitsAt(s, pV2, 4)
      pT == IF hasV THEN pV2 + 4 ELSE pV
      pF == IF CharAt(s, pT) \in {"U","D","N"} THEN pT + 1 ELSE pT
      isFt == LitAt(s, pF, <<"F","T">>)
      pEnd == IF isFt THEN pF + 2 ELSE pF
      toMeters(x) == IF isFt THEN (2 * x * 3048 + 10000) \div 20000 ELSE x
  IN IF /\ WordBoundary(s, i)
        /\ CharAt(s, i) = "R"
        /\ DigitsAt(s, i + 1, 2)
        /\ CharAt(s, pSlash) = "/"
        /\ DigitsAt(s, pV1, 4)
        /\ WordBoundary(s, pEnd)
       THEN <<toMeters(parseInt(SubSeq(s, pV1, pV1 + 3)))>>
              \o (IF hasV THEN <<toMeters(parseInt(SubSeq(s, pV2, pV2 + 3)))>>
                          ELSE <<>>)
       ELSE <<>>

\* concatenation of f(1), ..., f(n) for a function f of sequences
RECURSIVE ConcatUpTo(_, _)
ConcatUpTo(f, n) == IF n = 0 THEN <<>> ELSE ConcatUpTo(f, n - 1) \o f[n]

\* extractRvrMeters keeping the first value of each group only
extractRvrMeters_FirstValue(raw) ==
  ConcatUpTo([i \in 1..Len(raw) |->
                IF RvrMatchAt(raw, i) = <<>> THEN <<>> ELSE <<RvrMatchAt(raw, i)[1]>>],
             Len(raw))

extractRvrMeters(raw) ==
  ConcatUpTo([i \in 1..Len(raw) |-> RvrMatchAt(raw, i)], Len(raw))

\* one match of /\b(?:\d{3}|VRB)\d{2,3}G(\d{2,3})KT\b/ at position i
GustMatchAt(s, i) ==
  LET nS == IF IsDigit(CharAt(s, i + 5)) THEN 3 ELSE 2
      pG == i + 3 + nS
      nG == IF IsDigit(CharAt(s, pG + 3)) THEN 3 ELSE 2
  IN IF /\ WordBoundary(s, i)
        /\ (DigitsAt(s, i, 3) \/ LitAt(s, i, <<"V","R","B">>))
        /\ DigitsAt(s, i + 3, nS)
        /\ CharAt(s, pG) = "G"
        /\ DigitsAt(s, pG + 1, nG)
        /\ LitAt(s, pG + 1 + nG, <<"K","T">>)
        /\ WordBoundary(s, pG + 3 + nG)
       THEN <<parseInt(SubSeq(s, pG + 1, pG + nG))>>
       ELSE <<>>

extractGustKt(raw) ==
  ConcatUpTo([i \in 1..Len(raw) |-> GustMatchAt(raw, i)], Len(raw))

gustMaxKt(raw) ==
  LET vals == extractGustKt(raw)
  IN IF vals = <<>> THEN None ELSE Some(MaxOf(vals))

\* one match of /\b(BKN|OVC|VV)(\d{3})\b/ at position i: the height in feet
CeilingMatchAt(s, i) ==
  LET p == IF LitAt(s, i, <<"V","V">>) THEN i + 2 ELSE i + 3
  IN IF /\ WordBoundary(s, i)
        /\ \/ LitAt(s, i, <<"B","K","N">>)
           \/ LitAt(s, i, <<"O","V","C">>)
           \/ LitAt(s, i, <<"V","V">>)
        /\ DigitsAt(s, p, 3)
        /\ WordBoundary(s, p + 3)
       THEN <<parseInt(SubSeq(s, p, p + 2)) * 100>>
       ELSE <<>>

ceilingFt(raw) ==
  LET vals == ConcatUpTo([i \in 1..Len(raw) |-> CeilingMatchAt(raw, i)], Len(raw))
  IN IF vals = <<>> THEN None ELSE Some(MinOf(vals))

\* first match of /\b(M?\d{2})\/(M?\d{2})\b/ in the upper-cased text
TempMatchAt(s, i) ==
  LET p == IF CharAt(s, i) = "M" THEN i + 1 ELSE i
      q == IF CharAt(s, p + 3) = "M" THEN p + 4 ELSE p + 3
  IN /\ WordBoundary(s, i)
     /\ DigitsAt(s, p, 2)
     /\ CharAt(s, p + 2) = "/"
     /\ DigitsAt(s, q, 2)
     /\ WordBoundary(s, q + 2)

parseTempC(raw) ==
  The({ The({ IF i = 0 THEN None
               ELSE IF up[i] = "M" THEN Some(0 - parseInt(SubSeq(up, i + 1, i + 2)))
               ELSE Some(parseInt(SubSeq(up, i, i + 1))) :
               i \in {FirstOf({k \in 1..Len(up) : TempMatchAt(up, k)})} }) :
        up \in {toUpperCase(raw)} })

\* tokens of the report header that hazardFlags strips
headerSkip == { <<"M","E","T","A","R">>, <<"S","P","E","C","I">>, <<"T","A","F">>,
                <<"A","U","T","O">>, <<"C","O","R">>, <<"A","M","D">>,
                <<"C","N","L">>, <<"N","I","L">> }

\* toksAll.slice(i): header tokens, then one 4-letter station identifier, dropped
RECURSIVE StripHeader(_)
StripHeader(toks) ==
  IF toks # <<>> /\ toks[1] \in headerSkip THEN StripHeader(Tail(toks))
  ELSE IF toks # <<>> /\ Len(toks[1]) = 4 /\ \A k \in 1..4 : toks[1][k] \in UpperSet
    THEN Tail(toks)
  ELSE toks

\* the filter that keeps the isolated weather tokens
IsWxTok(t) ==
  /\ ~Includes(t, <<"/">>)
  /\ \A k \in 1..Len(t) : ~IsDigit(t[k])
  /\ ~LitAt(t, Len(t) - 1, <<"K","T">>)
  /\ ~LitAt(t, Len(t) - 2, <<"M","P","S">>)
  /\ Len(t) <= 12

\* /\b(?:FEW|SCT|BKN|OVC|VV)\d{3}(?:CB|TCU)\b/.test(s)
TestCloudCb(s) ==
  \E i \in 1..Len(s) :
    LET p == IF LitAt(s, i, <<"V","V">>) THEN i + 2 ELSE i + 3
    IN /\ WordBoundary(s, i)
       /\ \/ LitAt(s, i, <<"F","E","W">>) \/ LitAt(s, i, <<"S","C","T">>)
          \/ LitAt(s, i, <<"B","K","N">>) \/ LitAt(s, i, <<"O","V","C">>)
          \/ LitAt(s, i, <<"V","V">>)
       /\ DigitsAt(s, p, 3)
       /\ \/ LitAt(s, p + 3, <<"C","B">>) /\ WordBoundary(s, p + 5)
          \/ LitAt(s, p + 3, <<"T","C","U">>) /\ WordBoundary(s, p + 6)

hazardFlags(raw) ==
  IF raw = <<>> THEN
    [fzfg |-> FALSE, fg |-> FALSE, br |-> FALSE, blsn |-> FALSE,
     sn |-> FALSE, ra |-> FALSE, ts |-> FALSE, cb |-> FALSE, va |-> FALSE,
     fzra |-> FALSE, fzdz |-> FALSE, gr |-> FALSE, pl |-> FALSE,
     gs |-> FALSE, sg |-> FALSE,
     heavySn |-> FALSE, heavyFzra |-> FALSE, heavyHail |-> FALSE]
  ELSE
    The({
    LET hasWx(needle) == \E k \in 1..Len(wxToks) : Includes(wxToks[k], needle)
        word(lit) == TestWord(coreText, lit)
        both(lit) == word(lit) \/ hasWx(lit)
    IN [fzfg |-> word(<<"F","Z","F","G">>),
        fg   |-> both(<<"F","G">>),
        br   |-> both(<<"B","R">>),
        blsn |-> both(<<"B","L","S","N">>),
        sn   |-> word(<<"S","N">>) \/ word(<<"S","H","S","N">>)
                   \/ word(<<"B","L","S","N">>) \/ hasWx(<<"S","N">>),
        ra   |-> word(<<"R","A">>) \/ word(<<"D","Z">>)
                   \/ hasWx(<<"R","A">>) \/ hasWx(<<"D","Z">>),
        ts   |-> \E k \in 1..Len(wxToks) :
                   \/ LitAt(wxToks[k], 1, <<"T","S">>)
                   \/ LitAt(wxToks[k], 1, <<"+","T","S">>)
                   \/ LitAt(wxToks[k], 1, <<"-","T","S">>)
                   \/ LitAt(wxToks[k], 1, <<"V","C","T","S">>),
        cb   |-> TestCloudCb(coreText) \/ both(<<"C","B">>) \/ both(<<"T","C","U">>),
        va   |-> word(<<"V","A">>),
        fzra |-> both(<<"F","Z","R","A">>),
        fzdz |-> both(<<"F","Z","D","Z">>),
        gr   |-> both(<<"G","R">>),
        pl   |-> both(<<"P","L">>),
        gs   |-> both(<<"G","S">>),
        sg   |-> both(<<"S","G">>),
        heavySn   |-> TestSuffixWord(coreText, <<"+","S","N">>) \/ hasWx(<<"+","S","N">>),
        heavyFzra |-> TestSuffixWord(coreText, <<"+","F","Z","R","A">>)
                        \/ word(<<"F","Z","R","A">>),
        heavyHail |-> TestSuffixWord(coreText, <<"+","G","R">>) \/ word(<<"G","R">>)] :
      coreText \in {JoinSp(StripHeader(SplitWs(toUpperCase(raw))))},
      wxToks \in {SelectSeq(StripHeader(SplitWs(toUpperCase(raw))), IsWxTok)} })

\* computeScores without the cap Math.min(100, score)
computeScores_Uncapped(raw) ==
  The({ LET rvrMin == IF rvr # <<>> THEN Some(MinOf(rvr)) ELSE None
            visPts == IF ~IsNum(vis) THEN 0
                      ELSE IF vis[1] <= 150 THEN 35
                      ELSE IF vis[1] <= 175 THEN 30
                      ELSE IF vis[1] <= 250 THEN 26
                      ELSE IF vis[1] <= 300 THEN 24
                      ELSE IF vis[1] <= 500 THEN 18
                      ELSE IF vis[1] <= 550 THEN 16
                      ELSE IF vis[1] <= 800 THEN 12
                      ELSE 0
            rvrPts == IF ~IsNum(rvrMin) THEN 0
                      ELSE IF rvrMin[1] <= 75 THEN 28
                      ELSE IF rvrMin[1] <= 200 THEN 22
                      ELSE IF rvrMin[1] <= 300 THEN 18
                      ELSE IF rvrMin[1] <= 500 THEN 12
                      ELSE 0
            cigPts == IF ~IsNum(cig) THEN 0
                      ELSE IF cig[1] < 500 THEN 22
                      ELSE IF cig[1] < 800 THEN 12
                      ELSE 0
            wxPts == (IF hz.ts THEN 22 ELSE 0) + (IF hz.cb THEN 12 ELSE 0)
                       + (IF hz.fzfg THEN 18 ELSE 0) + (IF hz.fg THEN 14 ELSE 0)
                       + (IF hz.sn THEN 10 ELSE 0) + (IF hz.ra THEN 8 ELSE 0)
                       + (IF hz.br THEN 6 ELSE 0)
            gustPts == IF ~IsNum(gustMax) THEN 0
                       ELSE IF gustMax[1] >= 40 THEN 10
                       ELSE IF gustMax[1] >= 30 THEN 6
                       ELSE IF gustMax[1] >= 25 THEN 4
                       ELSE 0
            sum == visPts + rvrPts + cigPts + wxPts + gustPts
        IN [vis |-> vis, rvrMin |-> rvrMin, cig |-> cig, hz |-> hz,
            tempC |-> parseTempC(raw), gustMax |-> gustMax,
            score |-> sum] :
        vis \in {parseVisibilityMeters(raw)},
        rvr \in {extractRvrMeters(raw)},
        cig \in {ceilingFt(raw)},
        hz \in {hazardFlags(raw)},
        gustMax \in {gustMaxKt(raw)} })

computeScores(raw) ==
  The({ LET rvrMin == IF rvr # <<>> THEN Some(MinOf(rvr)) ELSE None
            visPts == IF ~IsNum(vis) THEN 0
                      ELSE IF vis[1] <= 150 THEN 35
                      ELSE IF vis[1] <= 175 THEN 30
                      ELSE IF vis[1] <= 250 THEN 26
                      ELSE IF vis[1] <= 300 THEN 24
                      ELSE IF vis[1] <= 500 THEN 18
                      ELSE IF vis[1] <= 550 THEN 16
                      ELSE IF vis[1] <= 800 THEN 12
                      ELSE 0
            rvrPts == IF ~IsNum(rvrMin) THEN 0
                      ELSE IF rvrMin[1] <= 75 THEN 28
                      ELSE IF rvrMin[1] <= 200 THEN 22
                      ELSE IF rvrMin[1] <= 300 THEN 18
                      ELSE IF rvrMin[1] <= 500 THEN 12
                      ELSE 0
            cigPts == IF ~IsNum(cig) THEN 0
                      ELSE IF cig[1] < 500 THEN 22
                      ELSE IF cig[1] < 800 THEN 12
                      ELSE 0
            wxPts == (IF hz.ts THEN 22 ELSE 0) + (IF hz.cb THEN 12 ELSE 0)
                       + (IF hz.fzfg THEN 18 ELSE 0) + (IF hz.fg THEN 14 ELSE 0)
                       + (IF hz.sn THEN 10 ELSE 0) + (IF hz.ra THEN 8 ELSE 0)
                       + (IF hz.br THEN 6 ELSE 0)
            gustPts == IF ~IsNum(gustMax) THEN 0
                       ELSE IF gustMax[1] >= 40 THEN 10
                       ELSE IF gustMax[1] >= 30 THEN 6
                       ELSE IF gustMax[1] >= 25 THEN 4
                       ELSE 0
            sum == visPts + rvrPts + cigPts + wxPts + gustPts
        IN [vis |-> vis, rvrMin |-> rvrMin, cig |-> cig, hz |-> hz,
            tempC |-> parseTempC(raw), gustMax |-> gustMax,
            score |-> IF sum < 100 THEN sum ELSE 100] :
        vis \in {parseVisibilityMeters(raw)},
        rvr \in {extractRvrMeters(raw)},
        cig \in {ceilingFt(raw)},
        hz \in {hazardFlags(raw)},
        gustMax \in {gustMaxKt(raw)} })

(***************************************************************************)
(* The OM-A/OM-B policy layer (window.WXM_OM, the definition in force).    *)
(***************************************************************************)
norm360(d) == ((d % 360) + 360) % 360

angleDiff(a, b) ==
  LET d == IF norm360(a) >= norm360(b) THEN norm360(a) - norm360(b)
                                       ELSE norm360(b) - norm360(a)
  IN IF d > 180 THEN 360 - d ELSE d

\* floor(10^6 * |Math.sin(toRad(ang))|) of the IEEE doubles, ang = 0, 10, .. 180
SinTable == <<0, 173648, 342020, 499999, 642787, 766044, 866025, 939692, 984807,
              1000000,
              984807, 939692, 866025, 766044, 642787, 499999, 342020, 173648, 0>>

\* Math.round(usedSpd * Math.abs(SIN(toRad(ang)))), ang a multiple of 10,
\* usedSpd < 100 (where the six-digit table rounds as the doubles do)
xwindComponent(usedSpd, ang) ==
  (2 * usedSpd * SinTable[(ang \div 10) + 1] + 1000000) \div 2000000

\* first match of /\b(\d{3}|VRB)(\d{2,3})(G(\d{2,3}))?KT\b/ at position i
WindMatchAt(s, i) ==
  LET nS == IF IsDigit(CharAt(s, i + 5)) THEN 3 ELSE 2
      pG == i + 3 + nS
      hasG == CharAt(s, pG) = "G"
      nG == IF IsDigit(CharAt(s, pG + 3)) THEN 3 ELSE 2
      pK == IF hasG THEN pG + 1 + nG ELSE pG
  IN /\ WordBoundary(s, i)
     /\ (DigitsAt(s, i, 3) \/ LitAt(s, i, <<"V","R","B">>))
     /\ DigitsAt(s, i + 3, nS)
     /\ (hasG => DigitsAt(s, pG + 1, nG))
     /\ LitAt(s, pK, <<"K","T">>)
     /\ WordBoundary(s, pK + 2)

parseWindKt(raw) ==
  The({ The({ IF i = 0 THEN [dir |-> None, spd |-> None, gst |-> None]
               ELSE LET nS == IF IsDigit(CharAt(up, i + 5)) THEN 3 ELSE 2
                        pG == i + 3 + nS
                        nG == IF IsDigit(CharAt(up, pG + 3)) THEN 3 ELSE 2
                    IN [dir |-> IF up[i] = "V" THEN None
                                  ELSE Some(parseInt(SubSeq(up, i, i + 2))),
                        spd |-> Some(parseInt(SubSeq(up, i + 3, i + 2 + nS))),
                        gst |-> IF CharAt(up, pG) = "G"
                                  THEN Some(parseInt(SubSeq(up, pG + 1, pG + nG)))
                                  ELSE None] :
               i \in {FirstOf({k \in 1..Len(up) : WindMatchAt(up, k)})} }) :
        up \in {toUpperCase(raw)} })

detectVA(raw) == TestWord(toUpperCase(raw), <<"V","A">>)

detectCB(raw) ==
  LET up == toUpperCase(raw)
  IN TestSuffixWord(up, <<"C","B">>) \/ TestSuffixWord(up, <<"T","C","U">>)

\* /\bR\d{2}[LRC]?\/[PM]?\d{4}/.test(up)
detectAnyRvr(raw) ==
  LET up == toUpperCase(raw)
  IN \E i \in 1..Len(up) :
       LET pSlash == IF CharAt(up, i + 3) \in {"L","R","C"} THEN i + 4 ELSE i + 3
           pV1 == IF CharAt(up, pSlash + 1) \in {"P","M"} THEN pSlash + 2
                                                         ELSE pSlash + 1
       IN /\ WordBoundary(up, i)
          /\ up[i] = "R"
          /\ DigitsAt(up, i + 1, 2)
          /\ CharAt(up, pSlash) = "/"
          /\ DigitsAt(up, pV1, 4)

heavyPrecipMatches(raw) ==
  LET up == toUpperCase(raw)
  IN (IF TestSuffixWord(up, <<"+","S","N">>) THEN <<"+SN">> ELSE <<>>)
     \o (IF TestSuffixWord(up, <<"+","G","S">>) THEN <<"+GS">> ELSE <<>>)
     \o (IF TestSuffixWord(up, <<"+","S","G">>) THEN <<"+SG">> ELSE <<>>)
     \o (IF TestSuffixWord(up, <<"+","P","L">>) THEN <<"+PL">> ELSE <<>>)
     \o (IF TestSuffixWord(up, <<"+","F","Z","R","A">>) THEN <<"+FZRA">>
         ELSE IF TestWord(up, <<"F","Z","R","A">>) THEN <<"FZRA">> ELSE <<>>)
     \o (IF TestSuffixWord(up, <<"+","G","R">>) THEN <<"+GR">>
         ELSE IF TestWord(up, <<"G","R">>) THEN <<"GR">> ELSE <<>>)

detectHeavyPrecipTOProhib(raw) == Len(heavyPrecipMatches(raw)) > 0

inferRunwayCondition(metarRaw, tafRaw) ==
  The({
  LET any(lits) == \E k \in 1..Len(lits) : TestWord(up, lits[k])
  IN IF any(<< <<"F","Z","R","A">>, <<"F","Z","D","Z">>, <<"P","L">>, <<"G","R">> >>)
       THEN [cond |-> "SEVERE", rwyccEst |-> 2]
     ELSE IF any(<< <<"S","N">>, <<"S","G">>, <<"G","S">>, <<"B","L","S","N">>,
                    <<"D","R","S","N">>, <<"S","H","S","N">> >>)
       THEN [cond |-> "CONTAM", rwyccEst |-> 3]
     ELSE IF any(<< <<"R","A">>, <<"D","Z">> >>)
       THEN [cond |-> "WET", rwyccEst |-> 5]
     ELSE [cond |-> "DRY", rwyccEst |-> 6] :
  up \in {toUpperCase(metarRaw \o <<" ">> \o tafRaw)} })

crosswindLimitKt_NarrowIgnored(rwyccEst, narrow) ==
  IF rwyccEst >= 6 THEN Some(38)
  ELSE IF rwyccEst = 5 THEN Some(35)
  ELSE IF rwyccEst = 4 THEN Some(20)
  ELSE IF rwyccEst = 3 THEN Some(15)
  ELSE IF rwyccEst = 2 THEN Some(10)
  ELSE None

\* null is None
crosswindLimitKt(rwyccEst, narrow) ==
  IF rwyccEst >= 6 THEN Some(IF narrow THEN 20 ELSE 38)
  ELSE IF rwyccEst = 5 THEN Some(IF narrow THEN 20 ELSE 35)
  ELSE IF rwyccEst = 4 THEN Some(IF narrow THEN 10 ELSE 20)
  ELSE IF rwyccEst = 3 THEN Some(IF narrow THEN 10 ELSE 15)
  ELSE IF rwyccEst = 2 THEN Some(IF narrow THEN 5 ELSE 10)
  ELSE None

\* the runway ends of a runway array, in loop order: [xwind, hdg, width_m]
RECURSIVE xwindCandidates(_, _, _)
xwindCandidates(rwys, windDir, usedSpd) ==
  IF rwys = <<>> THEN <<>>
  ELSE LET r == rwys[1]
           cand(h) == IF IsNum(h)
                        THEN << [xwind |-> xwindComponent(usedSpd, angleDiff(windDir, h[1])),
                                 hdg |-> h[1], width_m |-> r.width_m] >>
                        ELSE <<>>
       IN cand(r.le_heading) \o cand(r.he_heading)
            \o xwindCandidates(Tail(rwys), windDir, usedSpd)

\* let best = null; ... if (!best || candidate.xwind < best.xwind) best = candidate
bestCandidate_FirstEnd(cands, best) ==
  IF cands = <<>> THEN best ELSE Some(cands[1])

RECURSIVE bestCandidate(_, _)
bestCandidate(cands, best) ==
  IF cands = <<>> THEN best
  ELSE bestCandidate(Tail(cands),
         IF best = None \/ cands[1].xwind < best[1].xwind THEN Some(cands[1]) ELSE best)

\* runwaysForIcao: None (no array) or Some(array of runways)
computeBestCrosswind(windRaw, runwaysForIcao) ==
  The({ LET usedSpd == Max2(w.spd[1], IF IsNum(w.gst) THEN w.gst[1] ELSE 0)
            rwys == IF IsNum(runwaysForIcao) THEN runwaysForIcao[1] ELSE <<>>
        IN IF ~IsNum(w.dir) \/ ~IsNum(w.spd)
             THEN [xwind |-> None, best |-> None, narrow |-> None,
                   usedSpd |-> None, windDir |-> w.dir]
           ELSE The({ IF rwys = <<>> \/ best = None
                        THEN [xwind |-> None, best |-> None, narrow |-> None,
                              usedSpd |-> Some(usedSpd), windDir |-> w.dir]
                      ELSE [xwind |-> Some(best[1].xwind), best |-> best,
                            narrow |-> IF IsNum(best[1].width_m)
                                         THEN Some(best[1].width_m[1] < 45) ELSE None,
                            usedSpd |-> Some(usedSpd), windDir |-> w.dir] :
                      best \in {bestCandidate(xwindCandidates(rwys, w.dir[1], usedSpd),
                                              None)} }) :
        w \in {parseWindKt(windRaw)} })

\* const refVis = (typeof rvrMinAll === "number") ? rvrMinAll : (worstVis or null)
refVis_NullAsZero(worstVis, rvrMinAll) ==
  IF IsNum(rvrMinAll) THEN rvrMinAll ELSE IF IsNum(worstVis) THEN worstVis ELSE Some(0)
refVis_VisFirst(worstVis, rvrMinAll) == IF IsNum(worstVis) THEN worstVis ELSE rvrMinAll
refVis(worstVis, rvrMinAll) == IF IsNum(rvrMinAll) THEN rvrMinAll ELSE worstVis

rwys_AnyEntry(st, rwMap) ==
  IF IsNum(rwMap) /\ DOMAIN rwMap[1] # {}
    THEN Some(rwMap[1][CHOOSE x \in DOMAIN rwMap[1] : TRUE]) ELSE None

\* const rwys = runwaysMap ? runwaysMap[st.icao] : null
\* rwMap: None (null) or Some(function from identifiers to runway arrays)
rwys(st, rwMap) ==
  IF IsNum(rwMap) /\ st.icao \in DOMAIN rwMap[1] THEN Some(rwMap[1][st.icao]) ELSE None

\* const obsRaw = metarRaw || tafRaw  (the empty string is falsy)
obsRaw_TafFirst(metarRaw, tafRaw) == IF tafRaw # <<>> THEN tafRaw ELSE metarRaw
obsRaw(metarRaw, tafRaw) == IF metarRaw # <<>> THEN metarRaw ELSE tafRaw

\* st: [icao, metarRaw, tafRaw]; met, taf: results of computeScores.
\* The explain record is left out but for its heavyMatches.
computeOmFlags(st, met, taf, worstVis, rvrMinAll, rwMap) ==
  The({
  LET metarRaw == st.metarRaw
      tafRaw == st.tafRaw
      tsOrCb == met.hz.ts \/ met.hz.cb \/ taf.hz.ts \/ taf.hz.cb
                  \/ detectCB(metarRaw) \/ detectCB(tafRaw)
      ref == refVis(worstVis, rvrMinAll)
      narrow == (bestX.narrow = Some(TRUE))
      xwindLimit == IF IsNum(bestX.xwind)
                      THEN crosswindLimitKt(condInfo.rwyccEst, narrow) ELSE None
  IN [toProhib |-> heavy,
      tsOrCb |-> tsOrCb,
      heavyPrecip |-> heavy,
      heavyMatches |-> LET all == heavyPrecipMatches(metarRaw) \o heavyPrecipMatches(tafRaw)
                       IN {all[k] : k \in 1..Len(all)},      \* explain.heavyMatches
      va |-> detectVA(metarRaw) \/ detectVA(tafRaw),
      lvto |-> IsNum(ref) /\ ref[1] < 550,
      lvp |-> IsNum(ref) /\ ref[1] < 400,
      lvtoQualReq |-> IsNum(rvrMinAll) /\ rvrMinAll[1] < 150,
      rvr125 |-> IsNum(rvrMinAll) /\ rvrMinAll[1] < 125,
      rvrRequired |-> IF IsNum(worstVis) /\ worstVis[1] < 800
                        THEN ~detectAnyRvr(obs) ELSE FALSE,
      cat2Plus |-> IsNum(rvrMinAll) /\ rvrMinAll[1] < 450,
      cat3Only |-> IsNum(rvrMinAll) /\ rvrMinAll[1] < 200,
      cat3BelowMin |-> IsNum(rvrMinAll) /\ rvrMinAll[1] < 75,
      coldcorr |-> IsNum(tempC) /\ tempC[1] <= 0,
      xwindExceed |-> IF IsNum(bestX.xwind) /\ IsNum(xwindLimit)
                        THEN bestX.xwind[1] > xwindLimit[1] ELSE FALSE,
      xwindKt |-> bestX.xwind,
      xwindLimitKt |-> xwindLimit,
      xwindCond |-> condInfo.cond,
      rwyccEst |-> condInfo.rwyccEst,
      noOpsLikely |-> condInfo.rwyccEst < 3,
      xwindNarrow |-> bestX.narrow,
      xwindUsedSpdKt |-> bestX.usedSpd,
      xwindWindDir |-> bestX.windDir] :
  obs \in {obsRaw(st.metarRaw, st.tafRaw)},
  heavy \in {detectHeavyPrecipTOProhib(st.metarRaw)
               \/ detectHeavyPrecipTOProhib(st.tafRaw)},
  bestX \in {computeBestCrosswind(obsRaw(st.metarRaw, st.tafRaw), rwys(st, rwMap))},
  condInfo \in {inferRunwayCondition(st.metarRaw, st.tafRaw)},
  tempC \in {parseTempC(st.metarRaw)} })

(***************************************************************************)
(* Alert classifier and deriveStation of assets/app.js.                    *)
(***************************************************************************)
VIS_THRESHOLDS == <<800, 550, 500, 300, 250, 175, 150>>
RVR_THRESHOLDS == <<500, 300, 200, 75>>

ALERT_LEVEL == [OK |-> 0, MED |-> 1, HIGH |-> 2, CRIT |-> 3]

alertFromScore(score) ==
  IF score >= 70 THEN "CRIT"
  ELSE IF score >= 45 THEN "HIGH"
  ELSE IF score >= 20 THEN "MED"
  ELSE "OK"

minScoreForAlert_HighAt40(alert) ==
  IF alert = "CRIT" THEN 70
  ELSE IF alert = "HIGH" THEN 40
  ELSE IF alert = "MED" THEN 20
  ELSE 0

minScoreForAlert(alert) ==
  IF alert = "CRIT" THEN 70
  ELSE IF alert = "HIGH" THEN 45
  ELSE IF alert = "MED" THEN 20
  ELSE 0

RECURSIVE maxAlertFrom(_, _)
maxAlertFrom(alerts, best) ==
  IF alerts = <<>> THEN best
  ELSE maxAlertFrom(Tail(alerts),
         IF ALERT_LEVEL[alerts[1]] > ALERT_LEVEL[best] THEN alerts[1] ELSE best)
maxAlert(alerts) == maxAlertFrom(alerts, "OK")

\* windPillarAlert with the gusts of the observation only
windPillarAlert_MetarOnly(met, taf) ==
  LET g == IF IsNum(met.gustMax) THEN met.gustMax[1] ELSE 0
  IN IF g = 0 THEN "OK" ELSE IF g >= 40 THEN "CRIT" ELSE IF g >= 30 THEN "HIGH"
     ELSE IF g >= 25 THEN "MED" ELSE "OK"

windPillarAlert(met, taf) ==
  LET g == Max2(IF IsNum(met.gustMax) THEN met.gustMax[1] ELSE 0,
                IF IsNum(taf.gustMax) THEN taf.gustMax[1] ELSE 0)
  IN IF g = 0 THEN "OK"
     ELSE IF g >= 40 THEN "CRIT"
     ELSE IF g >= 30 THEN "HIGH"
     ELSE IF g >= 25 THEN "MED"
     ELSE "OK"

\* snowPillarAlert comparing absent values as JavaScript compares null (as 0)
snowPillarAlert_NullAsZero(met, taf, worstVis, rvrMinAll, cigAll) ==
  LET hasSnow == met.hz.sn \/ taf.hz.sn
      hasBlSn == met.hz.blsn \/ taf.hz.blsn
      num(x) == IF IsNum(x) THEN x[1] ELSE 0
  IN IF ~hasSnow /\ ~hasBlSn THEN "OK"
     ELSE IF hasBlSn THEN "CRIT"
     ELSE IF num(worstVis) <= 500 \/ num(rvrMinAll) <= 300 \/ num(cigAll) < 500
          THEN "CRIT"
     ELSE IF num(worstVis) <= 800 \/ num(rvrMinAll) <= 500 \/ num(cigAll) < 1000
          THEN "HIGH"
     ELSE "MED"

snowPillarAlert(met, taf, worstVis, rvrMinAll, cigAll) ==
  LET hasSnow == met.hz.sn \/ taf.hz.sn
      hasBlSn == met.hz.blsn \/ taf.hz.blsn
  IN IF ~hasSnow /\ ~hasBlSn THEN "OK"
     ELSE IF hasBlSn THEN "CRIT"
     ELSE IF \/ (IsNum(worstVis) /\ worstVis[1] <= 500)
             \/ (IsNum(rvrMinAll) /\ rvrMinAll[1] <= 300)
             \/ (IsNum(cigAll) /\ cigAll[1] < 500) THEN "CRIT"
     ELSE IF \/ (IsNum(worstVis) /\ worstVis[1] <= 800)
             \/ (IsNum(rvrMinAll) /\ rvrMinAll[1] <= 500)
             \/ (IsNum(cigAll) /\ cigAll[1] < 1000) THEN "HIGH"
     ELSE "MED"

\* for (const th of thresholds){ if (cond(th)) return th; }  -- 0 when none
RECURSIVE firstThreshold(_, _)
firstThreshold(ths, vals) ==
  IF ths = <<>> THEN 0
  ELSE IF \E k \in 1..Len(vals) : vals[k] <= ths[1] THEN ths[1]
  ELSE firstThreshold(Tail(ths), vals)

visBucket(vis) ==
  IF ~IsNum(vis) THEN None
  ELSE LET th == firstThreshold(VIS_THRESHOLDS, vis)
       IN IF th = 0 THEN None ELSE Some(th)

omMinBand_LoosestFirst(om) ==
  IF om.lvto THEN "lvto"
  ELSE IF om.lvp THEN "lvp"
  ELSE IF om.lvtoQualReq THEN "lvto150"
  ELSE IF om.rvr125 THEN "rvr125"
  ELSE "null"

omMinBand(om) ==
  IF om.rvr125 THEN "rvr125"
  ELSE IF om.lvtoQualReq THEN "lvto150"
  ELSE IF om.lvp THEN "lvp"
  ELSE IF om.lvto THEN "lvto"
  ELSE "null"

omCatBand_LoosestFirst(om) ==
  IF om.cat2Plus THEN "cat2plus"
  ELSE IF om.cat3Only THEN "cat3only"
  ELSE IF om.cat3BelowMin THEN "cat3min"
  ELSE "null"

omCatBand(om) ==
  IF om.cat3BelowMin THEN "cat3min"
  ELSE IF om.cat3Only THEN "cat3only"
  ELSE IF om.cat2Plus THEN "cat2plus"
  ELSE "null"

\* addBy(label, cls, m, t): one trigger [label, n, src], or nothing
addBy(label, n, m, t) ==
  IF ~m /\ ~t THEN <<>>
  ELSE << [label |-> label, n |-> n,
           src |-> IF m /\ t THEN "MT" ELSE IF m THEN "M" ELSE "T"] >>

\* the trigger list of deriveStation (labels with a number carry it in n)
stationTriggers(st, met, taf, omM, omT, rvrMinAll, engIceOps) ==
  The({
  LET mMin == omMinBand(omM)
      tMin == omMinBand(omT)
      mCat == omCatBand(omM)
      tCat == omCatBand(omT)
      tafMin == IF tafVals # <<>> THEN <<MinOf(tafVals)>> ELSE <<>>
      visTh == firstThreshold(VIS_THRESHOLDS, met.vis \o tafMin)
      rvrTh == firstThreshold(RVR_THRESHOLDS, metRvr \o tafRvr)
      le(vals, th) == \E k \in 1..Len(vals) : vals[k] <= th
      ge(g, k) == IsNum(g) /\ g[1] >= k
      mX == omM.xwindExceed /\ IsNum(omM.xwindLimitKt) /\ omM.xwindLimitKt[1] # 0
      tX == omT.xwindExceed /\ IsNum(omT.xwindLimitKt) /\ omT.xwindLimitKt[1] # 0
  IN (IF engIceOps THEN << [label |-> "ENG ICE OPS", n |-> 0, src |-> "M"] >> ELSE <<>>)
     \o addBy("TO PROHIB", 0, omM.toProhib, omT.toProhib)
     \o addBy("RVR<125", 0, mMin = "rvr125", tMin = "rvr125")
     \o addBy("LVTO<150 QUAL", 0, mMin = "lvto150", tMin = "lvto150")
     \o addBy("LVP (<400)", 0, mMin = "lvp", tMin = "lvp")
     \o addBy("LVTO (<550)", 0, mMin = "lvto", tMin = "lvto")
     \o addBy("RVR REQ (<800)", 0, omM.rvrRequired, omT.rvrRequired)
     \o addBy("CAT3<75", 0, mCat = "cat3min", tCat = "cat3min")
     \o addBy("CAT3 ONLY <200", 0, mCat = "cat3only", tCat = "cat3only")
     \o addBy("CAT2+ <450", 0, mCat = "cat2plus", tCat = "cat2plus")
     \o (IF mX THEN << [label |-> "XWIND>", n |-> omM.xwindLimitKt[1], src |-> "M"] >>
               ELSE <<>>)
     \o (IF tX /\ ~(mX /\ omM.xwindLimitKt = omT.xwindLimitKt)
           THEN << [label |-> "XWIND>", n |-> omT.xwindLimitKt[1], src |-> "T"] >>
           ELSE <<>>)
     \o addBy("RWYCC<3 likely", 0, omM.noOpsLikely, omT.noOpsLikely)
     \o addBy("VA", 0, omM.va, omT.va)
     \o (IF omM.coldcorr THEN << [label |-> "COLD CORR", n |-> 0, src |-> "M"] >>
                         ELSE <<>>)
     \o (IF visTh # 0
           THEN addBy("VIS<=", visTh, le(met.vis, visTh), le(tafMin, visTh))
           ELSE <<>>)
     \o (IF IsNum(rvrMinAll) /\ rvrTh # 0
           THEN addBy("RVR<=", rvrTh, le(metRvr, rvrTh), le(tafRvr, rvrTh))
           ELSE <<>>)
     \o addBy("CIG<500", 0, IsNum(mCig) /\ mCig[1] < 500, IsNum(tCig) /\ tCig[1] < 500)
     \o addBy("GUST>=40KT", 0, ge(met.gustMax, 40), ge(taf.gustMax, 40))
     \o addBy("GUST>=30KT", 0, ge(met.gustMax, 30) /\ ~ge(met.gustMax, 40),
                               ge(taf.gustMax, 30) /\ ~ge(taf.gustMax, 40))
     \o addBy("GUST>=25KT", 0, ge(met.gustMax, 25) /\ ~ge(met.gustMax, 30),
                               ge(taf.gustMax, 25) /\ ~ge(taf.gustMax, 30))
     \o addBy("TS/CB", 0, met.hz.ts \/ met.hz.cb, taf.hz.ts \/ taf.hz.cb)
     \o addBy("FZFG", 0, met.hz.fzfg, taf.hz.fzfg)
     \o addBy("FG", 0, met.hz.fg, taf.hz.fg)
     \o addBy("BR", 0, met.hz.br, taf.hz.br)
     \o addBy("SN", 0, met.hz.sn, taf.hz.sn)
     \o addBy("RA", 0, met.hz.ra, taf.hz.ra) :
  tafVals \in {extractAllVisibilityMetersFromTAF(st.tafRaw)},
  metRvr \in {extractRvrMeters(st.metarRaw)},
  tafRvr \in {extractRvrMeters(st.tafRaw)},
  mCig \in {ceilingFt(st.metarRaw)},
  tCig \in {ceilingFt(st.tafRaw)} })

\* st: [icao, metarRaw, tafRaw]; rwMap: the global runwaysMap at call time.
\* The age fields (wall-clock time) are left out.
\* severityScore without the 15 % discount of the forecast
\* the score of the evaluation before carried into the next one
severityScoreBeforePillars_Accumulating(met, taf, engIceOps) ==
  LET carried == IF stations = <<>> THEN 0 ELSE stations[1].severityScore
      sum == (IF engIceOps THEN 100 ELSE Max2(met.score, (taf.score * 85) \div 100))
               + carried
  IN IF sum < 100 THEN sum ELSE 100

severityScoreBeforePillars_NoDiscount(met, taf, engIceOps) ==
  IF engIceOps THEN 100 ELSE Max2(met.score, taf.score)

\* let severityScore = Math.max(met.score, Math.floor(taf.score*0.85));
\* if (engIceOps) severityScore = 100;
severityScoreBeforePillars(met, taf, engIceOps) ==
  IF engIceOps THEN 100 ELSE Max2(met.score, (taf.score * 85) \div 100)

deriveStation(st, rwMap) ==
  The({
  LET tafMin == IF tafVals # <<>> THEN <<MinOf(tafVals)>> ELSE <<>>
      worstVis == IF met.vis \o tafMin # <<>> THEN Some(MinOf(met.vis \o tafMin))
                                              ELSE None
      tafWorstVis == IF tafVals # <<>> THEN Some(MinOf(tafVals)) ELSE taf.vis
      rvrMinAll == IF allRvr # <<>> THEN Some(MinOf(allRvr)) ELSE None
      cigAll == IF met.cig \o taf.cig # <<>> THEN Some(MinOf(met.cig \o taf.cig))
                                             ELSE None
      engIceOps == IsNum(met.vis) /\ met.vis[1] <= 150 /\ met.hz.fzfg
      score0 == severityScoreBeforePillars(met, taf, engIceOps)
  IN The({ [icao |-> st.icao, metarRaw |-> st.metarRaw, tafRaw |-> st.tafRaw,
            om |-> om, omMet |-> omMet, omTaf |-> omTaf,
            met |-> met, taf |-> taf,
            worstVis |-> worstVis, rvrMinAll |-> rvrMinAll, cigAll |-> cigAll,
            engIceOps |-> engIceOps,
            severityScore |-> Max2(score0, minScoreForAlert(alert)),
            alert |-> alert,
            metPri |-> IF engIceOps THEN 1000 ELSE met.score,
            tafPri |-> taf.score,
            triggers |-> stationTriggers(st, met, taf, omMet, omTaf, rvrMinAll,
                                         engIceOps)] :
           om \in {computeOmFlags(st, met, taf, worstVis, rvrMinAll, rwMap)},
           omMet \in {computeOmFlags([st EXCEPT !.tafRaw = <<>>], met, _empty,
                                     met.vis, met.rvrMin, rwMap)},
           omTaf \in {computeOmFlags([st EXCEPT !.metarRaw = <<>>], _empty, taf,
                                     tafWorstVis, taf.rvrMin, rwMap)},
           alert \in {maxAlert(<< alertFromScore(score0), windPillarAlert(met, taf),
                                  snowPillarAlert(met, taf, worstVis, rvrMinAll,
                                                  cigAll) >>)} }) :
  met \in {computeScores(st.metarRaw)},
  taf \in {computeScores(st.tafRaw)},
  _empty \in {computeScores(<<>>)},
  tafVals \in {extractAllVisibilityMetersFromTAF(st.tafRaw)},
  allRvr \in {extractRvrMeters(st.metarRaw) \o extractRvrMeters(st.tafRaw)} })

(***************************************************************************)
(* The data job (scripts/update-data.mjs): the decoders whose results it   *)
(* writes to data/latest.json next to the raw reports.                     *)
(***************************************************************************)
\* tok.replace('M', ''): the first "M" of the token is taken out
ReplaceFirstM(tok) ==
  IF \E i \in 1..Len(tok) : tok[i] = "M"
    THEN LET p == CHOOSE i \in 1..Len(tok) : tok[i] = "M" /\ \A j \in 1..(i-1) : tok[j] # "M"
         IN SubSeq(tok, 1, p - 1) \o SubSeq(tok, p + 1, Len(tok))
    ELSE tok

\* s.slice(0, -2)
DropLast2(s) == SubSeq(s, 1, Len(s) - 2)

\* the leading decimal digits of s
LeadingDigits(s) ==
  LET n == IF \E i \in 1..Len(s) : ~IsDigit(s[i])
             THEN (CHOOSE i \in 1..Len(s) : ~IsDigit(s[i]) /\ \A j \in 1..(i-1) : IsDigit(s[j])) - 1
             ELSE Len(s)
  IN SubSeq(s, 1, n)

\* parseSmToken(tok): metres of a statute-mile token, None for null
parseSmToken(tok) ==
  IF IsPlusSM(tok)
    THEN Some(parseInt(SubSeq(tok, 2, Len(tok) - 2)) * 1609)
  ELSE IF IsWholeSM(tok)
    THEN LET ds == LeadingDigits(DropLast2(ReplaceFirstM(tok)))
         IN IF ds = <<>> THEN None ELSE Some(parseInt(ds) * 1609)
  ELSE IF IsFracSM(tok)
    THEN LET frac == DropLast2(ReplaceFirstM(tok))
             p == SlashPos(frac)
             a == parseInt(SubSeq(frac, 1, p - 1))
             b == parseInt(SubSeq(frac, p + 1, Len(frac)))
         IN IF b # 0 THEN Some((2 * a * 1609 + b) \div (2 * b)) ELSE None
  ELSE None

\* tokenizeAllVis(raw).min_m
RECURSIVE tokenizeAllVisFrom(_, _)
tokenizeAllVisFrom(tokens, min) ==
  IF tokens = <<>> THEN min
  ELSE LET t == Head(tokens)
           lower(m) == IF min = None \/ m < min[1] THEN Some(m) ELSE min
       IN IF Len(t) = 4 /\ AllDigits(t)
            THEN tokenizeAllVisFrom(Tail(tokens),
                                    lower(IF parseInt(t) = 9999 THEN 10000 ELSE parseInt(t)))
          ELSE IF parseSmToken(t) # None
            THEN tokenizeAllVisFrom(Tail(tokens), lower(parseSmToken(t)[1]))
          ELSE tokenizeAllVisFrom(Tail(tokens), min)

tokenizeAllVis(raw) ==
  IF raw = <<>> THEN None
  ELSE tokenizeAllVisFrom(SplitWs(raw),
                          IF TestWord(raw, <<"C","A","V","O","K">>) THEN Some(10000) ELSE None)

\* ceilingFt(raw) of the job: the lowest BKNxxx / OVCxxx / VVxxx token
ceilingFt_updateData(raw) ==
  LET tokens == SplitWs(raw)
      isLayer(t) == \/ Len(t) = 6 /\ (LitAt(t, 1, <<"B","K","N">>) \/ LitAt(t, 1, <<"O","V","C">>))
                                  /\ DigitsAt(t, 4, 3)
                    \/ Len(t) = 5 /\ LitAt(t, 1, <<"V","V">>) /\ DigitsAt(t, 3, 3)
      fts == {parseInt(SubSeq(tokens[k], Len(tokens[k]) - 2, Len(tokens[k]))) * 100 :
                k \in {j \in 1..Len(tokens) : isLayer(tokens[j])}}
  IN IF fts = {} THEN None ELSE Some(CHOOSE f \in fts : \A g \in fts : f <= g)

(***************************************************************************)
(* The data job with the thin payload (unnamed/part_001): the decoders     *)
(* behind the scalar fields of its station records.  Texts are taken       *)
(* without decimal points.                                                 *)
(***************************************************************************)
\* the length of the run of decimal digits of s that starts at position i
DigitRun(s, i) ==
  IF \E n \in 0..Len(s) : ~IsDigit(CharAt(s, i + n))
    THEN CHOOSE n \in 0..Len(s) :
           ~IsDigit(CharAt(s, i + n)) /\ \A k \in 0..(n-1) : IsDigit(CharAt(s, i + k))
    ELSE 0

\* "SM" at position i, in either case
SmAt(s, i) == CharAt(s, i) \in {"S","s"} /\ CharAt(s, i + 1) \in {"M","m"}

\* _parseVisibilityMeters(tok): CAVOK, a group of four digits as it stands,
\* XSM and X/YSM; None for null
_parseVisibilityMeters(tok) ==
  LET nX == DigitRun(tok, 1)
      hasSlash == CharAt(tok, nX + 1) = "/"
      pY == IF hasSlash THEN nX + 2 ELSE nX + 1
      nY == DigitRun(tok, pY)
      x == parseInt(SubSeq(tok, 1, nX))
      y == parseInt(SubSeq(tok, pY, pY + nY - 1))
  IN IF tok = <<>> THEN None
     ELSE IF tok = <<"C","A","V","O","K">> THEN Some(10000)
     ELSE IF Len(tok) = 4 /\ AllDigits(tok) THEN Some(parseInt(tok))
     ELSE IF nX >= 1 /\ SmAt(tok, pY + nY) /\ Len(tok) = pY + nY + 1
       THEN IF nY = 0 THEN Some(RoundMiles(x, 1))
            ELSE IF y = 0 THEN None
            ELSE Some(RoundMiles(x, y))
     ELSE None

\* the match of /\b(\d{4}|CAVOK)\b/ at position i, <<>> when there is none
VisWordAt(s, i) ==
  IF WordBoundary(s, i) /\ DigitsAt(s, i, 4) /\ WordBoundary(s, i + 4)
    THEN SubSeq(s, i, i + 3)
  ELSE IF WordBoundary(s, i) /\ LitAt(s, i, <<"C","A","V","O","K">>) /\ WordBoundary(s, i + 5)
    THEN <<"C","A","V","O","K">>
  ELSE <<>>

\* the match of /\b(P?\d+(?:\.\d+)?SM|\d+\/\d+SM)\b/i at position i
SmWordAt(s, i) ==
  LET p == IF CharAt(s, i) \in {"P","p"} THEN i + 1 ELSE i
      n == DigitRun(s, p)
      nX == DigitRun(s, i)
      nY == DigitRun(s, i + nX + 1)
      eY == i + nX + 1 + nY
  IN IF ~WordBoundary(s, i) THEN <<>>
     ELSE IF n >= 1 /\ SmAt(s, p + n) /\ WordBoundary(s, p + n + 2)
       THEN SubSeq(s, i, p + n + 1)
     ELSE IF nX >= 1 /\ CharAt(s, i + nX) = "/" /\ nY >= 1 /\ SmAt(s, eY)
               /\ WordBoundary(s, eY + 2)
       THEN SubSeq(s, i, eY + 1)
     ELSE <<>>

\* computeScores(raw).vis of the thin payload: the first group of four
\* digits or CAVOK of the text, else the first statute-mile group
thinVis(raw) ==
  The({ IF iV # 0 THEN _parseVisibilityMeters(VisWordAt(raw, iV))
        ELSE IF iS # 0 THEN _parseVisibilityMeters(SmWordAt(raw, iS))
        ELSE None :
        iV \in {FirstOf({i \in 1..Len(raw) : VisWordAt(raw, i) # <<>>})},
        iS \in {FirstOf({i \in 1..Len(raw) : SmWordAt(raw, i) # <<>>})} })

\* extractAllVisibilityMetersFromTAF(raw) of the thin payload: a group of
\* four digits is pushed twice, as it stands
RECURSIVE thinTafTokens(_)
thinTafTokens(toks) ==
  IF toks = <<>> THEN <<>>
  ELSE LET t == Head(toks)
       IN (IF Len(t) = 4 /\ AllDigits(t) THEN <<parseInt(t)>> ELSE <<>>)
            \o _parseVisibilityMeters(t)
            \o thinTafTokens(Tail(toks))

thinExtractAllVisibilityMetersFromTAF(raw) ==
  (IF TestWord(raw, <<"C","A","V","O","K">>) THEN <<10000>> ELSE <<>>)
    \o thinTafTokens(SplitWs(raw))

\* ceilingFt(raw) of the thin payload: 5000 under CAVOK, else the lowest
\* BKN/OVC/VV layer of the upper-cased text
thinCeilingFt(raw) ==
  IF TestWord(toUpperCase(raw), <<"C","A","V","O","K">>) THEN Some(5000)
  ELSE ceilingFt(toUpperCase(raw))

(***************************************************************************)
(* Roles, the row order and the trend pill of assets/app.js.               *)
(***************************************************************************)
\* String(r || "").trim()
RECURSIVE Trim(_)
Trim(s) ==
  IF s = <<>> THEN <<>>
  ELSE IF s[1] = " " THEN Trim(Tail(s))
  ELSE IF s[Len(s)] = " " THEN Trim(SubSeq(s, 1, Len(s) - 1))
  ELSE s

normalizeRole(r) ==
  LET v == toUpperCase(Trim(r))
  IN IF v = <<"B","A","S","E">> THEN <<"B","A","S","E">>
     ELSE IF v \in {<<"D","E","S","T">>, <<"D","E","S","T","I","N","A","T","I","O","N">>}
       THEN <<"D","E","S","T">>
     ELSE IF v \in {<<"A","L","T">>, <<"A","L","T","E","R","N","A","T","E">>}
       THEN <<"A","L","T">>
     ELSE <<"O","T","H","E","R">>

roleRank(role) ==
  IF role = <<"B","A","S","E">> THEN 0
  ELSE IF role = <<"D","E","S","T">> THEN 1
  ELSE IF role = <<"A","L","T">> THEN 2
  ELSE 3

\* normalizeRole(rolesMap[key]); a missing key gives undefined, hence OTHER
getRole(icao) ==
  LET key == toUpperCase(icao)
  IN normalizeRole(IF key \in DOMAIN rolesMap THEN rolesMap[key] ELSE <<>>)

\* a.localeCompare(b) for texts of digits and capital letters: -1, 0 or 1
CharRank(c) ==
  IF IsDigit(c) THEN CHOOSE k \in 1..10 : DigitChars[k] = c
  ELSE IF c \in UpperSet THEN 10 + (CHOOSE k \in 1..26 : UpperChars[k] = c)
  ELSE 0

RECURSIVE localeCompare(_, _)
localeCompare(a, b) ==
  IF a = <<>> /\ b = <<>> THEN 0
  ELSE IF a = <<>> THEN -1
  ELSE IF b = <<>> THEN 1
  ELSE IF CharRank(a[1]) < CharRank(b[1]) THEN -1
  ELSE IF CharRank(a[1]) > CharRank(b[1]) THEN 1
  ELSE localeCompare(Tail(a), Tail(b))

\* the comparator of the priority order: engine ice pinned, then the METAR
\* priority, the TAF priority, the severity, the identifier
priorityBefore(a, b) ==
  IF a.engIceOps # b.engIceOps THEN a.engIceOps
  ELSE IF b.metPri # a.metPri THEN b.metPri - a.metPri < 0
  ELSE IF b.tafPri # a.tafPri THEN b.tafPri - a.tafPri < 0
  ELSE IF b.severityScore # a.severityScore THEN b.severityScore - a.severityScore < 0
  ELSE localeCompare(a.icao, b.icao) < 0

icaoBefore(a, b) == localeCompare(a.icao, b.icao) < 0

\* sortList(list): [...list].sort(cmp) with before(a, b) for cmp(a, b) < 0;
\* the sort is stable: the place of an element is the number of elements in
\* front of it
sortList(list, sortPri) ==
  LET before(a, b) == IF sortPri THEN priorityBefore(a, b) ELSE icaoBefore(a, b)
      n == Len(list)
      place(i) == Cardinality({j \in 1..n :
                     \/ before(list[j], list[i])
                     \/ ~before(list[i], list[j]) /\ j < i})
  IN [k \in 1..n |-> list[CHOOSE i \in 1..n : place(i) = k - 1]]

\* raw.match(/\b(\d{2}\d{2}\d{2})Z\b/): the first DDHHMMZ group, "" when none
metarObsKeyFromRaw(raw) ==
  LET at(i) == /\ WordBoundary(raw, i) /\ DigitsAt(raw, i, 6)
               /\ CharAt(raw, i + 6) = "Z" /\ WordBoundary(raw, i + 7)
      i0 == FirstOf({i \in 1..Len(raw) : at(i)})
  IN IF i0 = 0 THEN <<>> ELSE SubSeq(raw, i0, i0 + 6)

\* String(n) of a non-negative integer
RECURSIVE StringOf(_)
StringOf(n) ==
  IF n < 10 THEN <<DigitChars[n + 1]>>
  ELSE StringOf(n \div 10) \o <<DigitChars[(n % 10) + 1]>>

\* trendPill that compares at every render, the same METAR or not
trendPill_EveryRender(store, icao, currentMetarVis, metarObsKey) ==
  LET prev == IF icao \in DOMAIN store THEN store[icao]
              ELSE [obs |-> <<>>, vis |-> <<>>, trend |-> ""]
      visRaw == IF currentMetarVis = None THEN <<>> ELSE StringOf(currentMetarVis[1])
      put(text) == [x \in DOMAIN store \cup {icao} |->
                      IF x = icao THEN [obs |-> metarObsKey, vis |-> visRaw, trend |-> text]
                      ELSE store[x]]
      prevVis == IF prev.vis # <<>> THEN Some(parseInt(prev.vis)) ELSE None
      out == IF IsNum(prevVis) /\ IsNum(currentMetarVis)
               THEN IF currentMetarVis[1] < prevVis[1] THEN "DOWN"
                    ELSE IF currentMetarVis[1] > prevVis[1] THEN "UP"
                    ELSE "FLAT"
               ELSE "NEW"
  IN IF metarObsKey = <<>> THEN [text |-> "DASH", store |-> store]
     ELSE IF prev.obs = <<>> THEN [text |-> "NEW", store |-> put("NEW")]
     ELSE [text |-> out, store |-> put(out)]

\* trendPill(icao, currentMetarVis, metarObsKey) over the three keys
\* wxm_prev_metar_obs_, _vis_ and _trend_ of the station, kept here as one
\* record per identifier.  The texts of the pill are NEW, DOWN and UP (the
\* two triangles), FLAT (the bullet with 0) and DASH.
trendPill(store, icao, currentMetarVis, metarObsKey) ==
  LET prev == IF icao \in DOMAIN store THEN store[icao]
              ELSE [obs |-> <<>>, vis |-> <<>>, trend |-> ""]
      visRaw == IF currentMetarVis = None THEN <<>> ELSE StringOf(currentMetarVis[1])
      put(text) == [x \in DOMAIN store \cup {icao} |->
                      IF x = icao THEN [obs |-> metarObsKey, vis |-> visRaw, trend |-> text]
                      ELSE store[x]]
      prevVis == IF prev.vis # <<>> THEN Some(parseInt(prev.vis)) ELSE None
      out == IF IsNum(prevVis) /\ IsNum(currentMetarVis)
               THEN IF currentMetarVis[1] < prevVis[1] THEN "DOWN"
                    ELSE IF currentMetarVis[1] > prevVis[1] THEN "UP"
                    ELSE "FLAT"
               ELSE "NEW"
  IN IF metarObsKey = <<>> THEN [text |-> "DASH", store |-> store]
     ELSE IF prev.obs = <<>> THEN [text |-> "NEW", store |-> put("NEW")]
     ELSE IF prev.obs = metarObsKey
       THEN [text |-> IF prev.trend # "" THEN prev.trend ELSE "FLAT", store |-> store]
     ELSE [text |-> out, store |-> put(out)]

\* rowHtml(st): the trend pill of the row, with the store it leaves
rowHtml(st, store) ==
  LET t == trendPill(store, st.icao, st.met.vis, metarObsKeyFromRaw(st.metarRaw))
  IN [row |-> [icao |-> st.icao, trend |-> t.text], store |-> t.store]

\* sorted.map(rowHtml): the rows from the k-th on
RECURSIVE rowsFrom(_, _, _, _)
rowsFrom(list, k, store, out) ==
  IF k > Len(list) THEN [rows |-> out, store |-> store]
  ELSE LET r == rowHtml(list[k], store)
       IN rowsFrom(list, k + 1, r.store, Append(out, r.row))

\* render(): the filters are at their defaults (all stations pass)
render(list, sortPri, store) == rowsFrom(sortList(list, sortPri), 1, store, <<>>)

\* the station records with an identifier of four characters, derived, each
\* with its role (the records carry no IATA code, so isBase is false)
stationsOf(rawStations) ==
  LET kept == SelectSeq(rawStations, LAMBDA s : Len(s.icao) = 4)
      withRole(st) ==
        [f \in DOMAIN st \cup {"isBase", "role", "roleRank"} |->
           IF f = "isBase" THEN FALSE
           ELSE IF f = "role" THEN getRole(st.icao)
           ELSE IF f = "roleRank" THEN roleRank(getRole(st.icao))
           ELSE st[f]]
  IN [k \in 1..Len(kept) |->
        withRole(deriveStation([icao |-> toUpperCase(kept[k].icao),
                                metarRaw |-> kept[k].metarRaw,
                                tafRaw |-> kept[k].tafRaw], runwaysMap))]

(***************************************************************************)
(* The dashboard as a state machine (refreshData of assets/app.js).        *)
(*   data         the station record served in data/latest.json            *)
(*   runwaysJson  the table served in data/runways.json                    *)
(*   runwaysMap   the runway table held by the page: None until fetched    *)
(*   stations     the derived station list                                  *)
(*   pc           the position of refreshData                              *)
(*   dataRest     the station records of data/latest.json behind the first *)
(*   rolesMap     config/airport_roles.json as fetchRoles keeps it         *)
(*   view         the view settings (the priority sort box)                *)
(*   rows         the table rows of the last render: identifier and trend  *)
(*   localStorage the browser store: the trend keys of the dashboard and   *)
(*                the history keys of the Stats page                       *)
(* The Stats page has lastGeneratedAt and the clock now, the Settings page *)
(* has airports and roles.                                                 *)
(***************************************************************************)
SeqsUpTo(V, n) == UNION {[1..k -> V] : k \in 0..n}

StationIcao == <<"L","G","T","S">>

\* a runway of data/runways.json
Rwy(le, he, w) == [le_heading |-> le, he_heading |-> he, width_m |-> w]

\* tables of data/runways.json: single runway ends, two runways (one narrow),
\* unknown width, an entry for another station only, an empty entry
RunwayTables ==
  { [x \in {StationIcao} |-> << Rwy(Some(90), None, Some(45)) >>],
    [x \in {StationIcao} |-> << Rwy(Some(0), None, Some(30)) >>],
    [x \in {StationIcao} |-> << Rwy(Some(90), Some(270), Some(45)),
                                Rwy(Some(0), Some(180), Some(30)) >>],
    [x \in {StationIcao} |-> << Rwy(Some(120), Some(300), None),
                                Rwy(None, Some(50), Some(60)) >>],
    [x \in {<<"E","G","L","L">>} |-> << Rwy(Some(90), Some(270), Some(45)) >>],
    [x \in {StationIcao} |-> <<>>] }

OneRunwayTable ==
  { [x \in {StationIcao} |-> << Rwy(Some(90), Some(270), Some(45)) >>] }

\* localStorage with no key set
EmptyStorage ==
  [prevMetar |-> <<>>, history |-> <<>>, snaps |-> <<>>, events |-> <<>>,
   series |-> <<>>]

\* a dataset of one station, no role configured, the priority sort on,
\* nothing rendered yet, an empty browser store; the other pages not open
OneStationPage ==
  /\ dataRest = <<>>
  /\ rolesMap = <<>>
  /\ view = [sortPri |-> TRUE]
  /\ rows = <<>>
  /\ localStorage = EmptyStorage
  /\ lastGeneratedAt = None
  /\ now = 0
  /\ airports = <<>>
  /\ roles = <<>>

InitWith(metars, tafs, tables) ==
  /\ data \in [icao : {StationIcao}, metarRaw : metars, tafRaw : tafs]
  /\ runwaysJson \in tables
  /\ runwaysMap = None
  /\ stations = <<>>
  /\ pc = "refresh"
  /\ OneStationPage

\* await fetchRunways(): the table is fetched unless the page holds one;
\* a failed fetch leaves runwaysMap null
fetchRunways ==
  /\ pc = "refresh"
  /\ runwaysMap' \in (IF runwaysMap # None THEN {runwaysMap}
                                            ELSE {None, Some(runwaysJson)})
  /\ pc' = "latest"
  /\ UNCHANGED <<data, runwaysJson, stations, listVars, otherPages>>

\* applyDataFromLatest(data): the station list is rebuilt from the data,
\* each station gets its role, and the table is rendered
applyDataFromLatest ==
  /\ pc = "latest"
  /\ \E new \in {stationsOf(<<data>> \o dataRest)} :
       \E r \in {render(new, view.sortPri, localStorage.prevMetar)} :
         /\ stations' = new
         /\ rows' = r.rows
         /\ localStorage' = [localStorage EXCEPT !.prevMetar = r.store]
  /\ pc' = "shown"
  /\ UNCHANGED <<data, runwaysJson, runwaysMap, dataRest, rolesMap, view, otherPages>>

\* the change handler of the priority sort box: view.sortPri = checked; render()
setSortPri ==
  /\ pc = "shown"
  /\ view' = [view EXCEPT !.sortPri = ~view.sortPri]
  /\ \E r \in {render(stations, ~view.sortPri, localStorage.prevMetar)} :
       /\ rows' = r.rows
       /\ localStorage' = [localStorage EXCEPT !.prevMetar = r.store]
  /\ UNCHANGED <<data, runwaysJson, runwaysMap, stations, pc, dataRest, rolesMap,
                 otherPages>>

\* setInterval(refreshData): the next dataset is fetched; its station
\* records are those of one of the given datasets
poll(datasets) ==
  /\ pc = "shown"
  /\ \E d \in datasets : data' = d[1] /\ dataRest' = Tail(d)
  /\ pc' = "refresh"
  /\ UNCHANGED <<runwaysJson, runwaysMap, stations, rolesMap, view, rows,
                 localStorage, otherPages>>

Next == fetchRunways \/ applyDataFromLatest

\* the data job starts from the raw reports
InitJob(metars, tafs, tables) ==
  /\ data \in [icao : {StationIcao}, metarRaw : metars, tafRaw : tafs]
  /\ runwaysJson \in tables
  /\ runwaysMap = None
  /\ stations = <<>>
  /\ pc = "job"
  /\ OneStationPage

\* main() of scripts/update-data.mjs, the station record it writes: the raw
\* reports with the decoded visibility and ceiling (hazards and the score
\* of the job are not kept here)
mainStations ==
  /\ pc = "job"
  /\ data' = The({ [icao |-> data.icao, metarRaw |-> data.metarRaw, tafRaw |-> data.tafRaw,
                    visibility_m |-> metarVis,
                    taf_visibility_m |-> tafVis,
                    worst_visibility_m |->
                      IF metarVis \o tafVis = <<>> THEN None
                      ELSE Some(MinOf(metarVis \o tafVis)),
                    ceiling_ft |->
                      IF ceilingFt_updateData(data.metarRaw) # None
                        THEN ceilingFt_updateData(data.metarRaw)
                        ELSE ceilingFt_updateData(data.tafRaw)] :
                   metarVis \in {tokenizeAllVis(data.metarRaw)},
                   tafVis \in {tokenizeAllVis(data.tafRaw)} })
  /\ pc' = "refresh"
  /\ UNCHANGED <<runwaysJson, runwaysMap, stations, listVars, otherPages>>

\* the job, then the page
NextJob == mainStations \/ fetchRunways \/ applyDataFromLatest

\* main() of the data job with the thin payload: computeDerivedStation and
\* the scalar fields kept next to it (visibility_m, taf_visibility_m,
\* worst_visibility_m, ceiling_ft); the other fields of the payload are
\* not kept here
mainStationsThin ==
  /\ pc = "job"
  /\ data' = The({ [icao |-> data.icao, metarRaw |-> data.metarRaw, tafRaw |-> data.tafRaw,
                    visibility_m |-> metVis,
                    taf_visibility_m |->
                      IF tafVals # <<>> THEN Some(MinOf(tafVals)) ELSE tafVis,
                    worst_visibility_m |->
                      LET vals == metVis \o (IF tafVals # <<>> THEN <<MinOf(tafVals)>>
                                                               ELSE <<>>)
                      IN IF vals = <<>> THEN None ELSE Some(MinOf(vals)),
                    ceiling_ft |->
                      IF a = None THEN b ELSE IF b = None THEN a
                      ELSE Some(MinOf(a \o b))] :
                   metVis \in {thinVis(data.metarRaw)},
                   tafVis \in {thinVis(data.tafRaw)},
                   tafVals \in {thinExtractAllVisibilityMetersFromTAF(data.tafRaw)},
                   a \in {thinCeilingFt(data.metarRaw)},
                   b \in {thinCeilingFt(data.tafRaw)} })
  /\ pc' = "refresh"
  /\ UNCHANGED <<runwaysJson, runwaysMap, stations, listVars, otherPages>>

\* the job with the thin payload, then the page
NextThin == mainStationsThin \/ fetchRunways \/ applyDataFromLatest

(***************************************************************************)
(* Report texts the specifications draw from.                              *)
(***************************************************************************)
\* weather groups (takeoff prohibition, runway condition)
WxVocab ==
  { <<"+","S","N">>,
    <<"-","S","N">>,
    <<"-","R","A","S","N">>,
    <<"R","A">>,
    <<"-","F","Z","R","A">>,
    <<"+","F","Z","R","A">>,
    <<"G","R">>,
    <<"+","P","L">>,
    <<"+","s","g">> }

TafWxVocab ==
  { <<"+","G","S">>,
    <<"F","Z","R","A">>,
    <<"R","A">> }

\* the other fields of a report, to which the weather groups are added
WxContexts ==
  { <<>>,
    << <<"L","G","T","S">>,
       <<"2","7","0","1","5","G","2","5","K","T">>,
       <<"0","1","0","0">>,
       <<"R","2","7","/","0","0","5","0">>,
       <<"T","S">>,
       <<"B","K","N","0","0","3","C","B">> >> }

InitWx ==
  InitWith({JoinSp(c \o b) : c \in WxContexts, b \in SeqsUpTo(WxVocab, MaxMetarToks)},
           {JoinSp(b) : b \in SeqsUpTo(TafWxVocab, MaxTafToks)},
           OneRunwayTable)

SpecWx == InitWx /\ [][Next]_vars

\* visibility and RVR groups
VisVocab ==
  { <<"0","1","0","0">>,
    <<"0","4","0","0">>,
    <<"0","5","5","0">>,
    <<"0","8","0","0">>,
    <<"1","/","4","S","M">>,
    <<"R","2","7","/","0","4","0","0">>,
    <<"R","2","7","/","0","0","5","0">>,
    <<"R","0","9","L","/","0","5","5","0","V","0","3","9","9","U">> }

TafVisVocab ==
  { <<"0","3","0","0">>,
    <<"R","2","7","/","0","3","0","0">>,
    <<"9","9","9","9">> }

\* the scenario METAR of the specification
ScenarioMetar ==
  JoinSp(<< <<"K","X","Y","Z">>,
         <<"2","4","1","2","0","0","Z">>,
         <<"2","7","0","1","5","G","2","5","K","T">>,
         <<"1","/","4","S","M">>,
         <<"R","2","7","/","0","4","0","0">>,
         <<"-","S","N">>,
         <<"B","K","N","0","0","3">>,
         <<"M","0","2","/","M","0","5">>,
         <<"A","2","9","9","0">> >>)

InitVis ==
  InitWith({JoinSp(b) : b \in SeqsUpTo(VisVocab, MaxMetarToks)} \cup {ScenarioMetar},
           {JoinSp(b) : b \in SeqsUpTo(TafVisVocab, MaxTafToks)},
           OneRunwayTable)

SpecVis == InitVis /\ [][Next]_vars

\* wind groups and the weather groups that set the runway condition
XwVocab ==
  { <<"2","7","0","3","0","K","T">>,
    <<"3","6","0","1","5","K","T">>,
    <<"2","7","0","1","5","G","2","5","K","T">>,
    <<"V","R","B","0","5","K","T">>,
    <<"0","3","0","1","2","G","4","0","K","T">>,
    <<"R","A">>,
    <<"S","N">>,
    <<"F","Z","R","A">> }

TafXwVocab ==
  { <<"1","8","0","2","0","G","3","0","K","T">> }

InitXw ==
  InitWith({JoinSp(b) : b \in SeqsUpTo(XwVocab, MaxMetarToks)},
           {JoinSp(b) : b \in SeqsUpTo(TafXwVocab, MaxTafToks)},
           RunwayTables)

SpecXw == InitXw /\ [][Next]_vars

\* groups that drive the severity score and the wind and snow pillars
MixVocab ==
  { <<"0","1","0","0">>,
    <<"F","Z","F","G">>,
    <<"S","N">>,
    <<"B","L","S","N">>,
    <<"2","7","0","2","0","G","3","2","K","T">>,
    <<"2","7","0","2","0","G","4","5","K","T">>,
    <<"B","K","N","0","0","3">> }

TafMixVocab ==
  { <<"0","1","0","0">>,
    <<"2","7","0","2","0","G","3","2","K","T">>,
    <<"-","S","N">> }

Init ==
  InitWith({JoinSp(b) : b \in SeqsUpTo(MixVocab, MaxMetarToks)},
           {JoinSp(b) : b \in SeqsUpTo(TafMixVocab, MaxTafToks)},
           OneRunwayTable)

Spec == Init /\ [][Next]_vars

\* reports as the data job stores them: a METAR line behind "METAR" and the
\* station identifier, a TAF block behind "TAF" and the identifier; a report
\* that was not received is empty
MetarReports(V, n) ==
  {<<>>} \cup {JoinSp(<< <<"M","E","T","A","R">>, StationIcao >> \o b) : b \in SeqsUpTo(V, n)}

TafReports(V, n) ==
  {<<>>} \cup {JoinSp(<< <<"T","A","F">>, StationIcao >> \o b) : b \in SeqsUpTo(V, n)}

\* wind groups around the gust thresholds of the wind pillar, with groups
\* that move the score-based alert and the snow pillar
WindVocab ==
  { <<"2","7","0","1","0","G","2","4","K","T">>,
    <<"2","7","0","1","5","G","2","5","K","T">>,
    <<"2","7","0","2","0","G","3","0","K","T">>,
    <<"V","R","B","2","0","G","4","0","K","T">>,
    <<"2","7","0","1","2","K","T">>,
    <<"S","N">>,
    <<"0","5","0","0">>,
    <<"R","2","7","/","0","0","7","5">> }

TafWindVocab ==
  { <<"1","8","0","2","0","G","3","9","K","T">> }

InitWind ==
  InitWith(MetarReports(WindVocab, MaxMetarToks),
           TafReports(TafWindVocab, MaxTafToks),
           OneRunwayTable)

SpecWind == InitWind /\ [][Next]_vars

\* visibility at and above the engine-ice limit, with and without freezing fog
IceVocab ==
  { <<"0","1","5","0">>,
    <<"0","1","7","5">>,
    <<"F","Z","F","G">>,
    <<"F","G">>,
    <<"S","N">>,
    <<"2","7","0","2","0","G","4","5","K","T">> }

TafIceVocab ==
  { <<"0","1","0","0">>,
    <<"F","Z","F","G">>,
    <<"T","S">> }

InitIce ==
  InitWith(MetarReports(IceVocab, MaxMetarToks),
           TafReports(TafIceVocab, MaxTafToks),
           OneRunwayTable)

SpecIce == InitIce /\ [][Next]_vars

\* snow with visibility, RVR and ceiling at the limits of the snow pillar
SnowVocab ==
  { <<"S","N">>,
    <<"0","5","0","0">>,
    <<"0","8","0","0">>,
    <<"R","2","7","/","0","3","0","0">>,
    <<"R","2","7","/","0","5","0","0">>,
    <<"B","K","N","0","0","4">>,
    <<"B","K","N","0","0","5">>,
    <<"0","8","0","1"," ","R","2","7","/","0","5","0","1"," ","B","K","N","0","1","0">> }

TafSnowVocab ==
  { <<"-","S","N">>,
    <<"B","L","S","N">> }

InitSnow ==
  InitWith(MetarReports(SnowVocab, MaxMetarToks),
           TafReports(TafSnowVocab, MaxTafToks),
           OneRunwayTable)

SpecSnow == InitSnow /\ [][Next]_vars

\* groups for every band of the score: visibility, RVR and ceiling at the band
\* limits, each scored hazard, gusts at 25, 30 and 40 kt
ScoreVocab ==
  { <<"0","1","5","0"," ","R","2","7","/","0","0","7","5"," ","B","K","N","0","0","4">>,
    <<"0","1","7","5"," ","R","2","7","/","0","2","0","0"," ","O","V","C","0","0","5">>,
    <<"0","2","5","0"," ","R","2","7","/","0","3","0","0"," ","V","V","0","0","7">>,
    <<"0","3","0","0"," ","R","2","7","/","0","5","0","0"," ","B","K","N","0","0","8">>,
    <<"0","5","0","0"," ","R","2","7","/","0","5","0","1">>,
    <<"0","5","5","0"," ","T","S">>,
    <<"0","8","0","0"," ","S","N"," ","B","R">>,
    <<"0","8","0","1"," ","R","A">>,
    <<"F","Z","F","G">>,
    <<"B","K","N","0","2","0","C","B"," ","2","7","0","1","5","G","2","5","K","T">>,
    <<"D","Z"," ","2","7","0","2","0","G","3","0","K","T">>,
    <<"F","G"," ","2","7","0","2","0","G","4","0","K","T">> }

InitScore ==
  InitWith(MetarReports(ScoreVocab, MaxMetarToks),
           TafReports({}, MaxTafToks),
           OneRunwayTable)

SpecScore == InitScore /\ [][Next]_vars

\* visibility in metres with the groups that hold a "/": a validity range,
\* an RVR group, a temperature group
MetricVisVocab ==
  { <<"C","A","V","O","K">>,
    <<"3","0","0","0">>,
    <<"0","6","0","0">>,
    <<"9","9","9","9","N","D","V">>,
    <<"3","0","1","2","/","3","1","1","2">>,
    <<"R","2","7","/","0","6","0","0">>,
    <<"M","0","2","/","M","0","5">> }

\* visibility in statute miles: fraction, whole miles, and the split form
\* "1 1/2SM" of two tokens
MileVisVocab ==
  { <<"1","/","2","S","M">>,
    <<"M","1","/","4","S","M">>,
    <<"P","6","S","M">>,
    <<"2","S","M">>,
    <<"1"," ","1","/","2","S","M">>,
    <<"R","2","7","/","0","6","0","0">> }

\* a forecast of CAVOK with a period of 3000 m
TafDecodeVocab ==
  { <<"C","A","V","O","K"," ","T","E","M","P","O"," ","3","0","1","2","/","3","1","1","2"," ","3","0","0","0">> }

InitDecode ==
  InitJob(MetarReports(MetricVisVocab, MaxMetarToks) \cup MetarReports(MileVisVocab, MaxMetarToks),
          TafReports(TafDecodeVocab, MaxTafToks),
          OneRunwayTable)

SpecDecode == InitDecode /\ [][NextJob]_vars

\* groups of four digits from 0000 to 9999, and an RVR group
DigitVisVocab ==
  { <<"0","0","0","0">>,
    <<"0","0","0","1">>,
    <<"0","1","5","0">>,
    <<"1","6","0","0">>,
    <<"5","0","0","0">>,
    <<"9","9","9","8">>,
    <<"9","9","9","9">>,
    <<"R","2","7","/","0","6","0","0">> }

\* a forecast of 9999 behind its validity range, and one of 9999 with a
\* period of 1600 m
TafPeriodVocab ==
  { <<"3","0","1","2","/","3","1","1","2"," ","9","9","9","9">>,
    <<"9","9","9","9"," ","T","E","M","P","O"," ","3","0","1","2","/","3","1","1","2"," ","1","6","0","0">> }

InitThin ==
  InitJob(MetarReports(DigitVisVocab, MaxMetarToks),
          TafReports(TafPeriodVocab, MaxTafToks),
          OneRunwayTable)

SpecThin == InitThin /\ [][NextThin]_vars

\* RVR groups: plain, with runway side, with P and M, with tendency, with a
\* variability range (rising and falling), next to a visibility group
RvrVocab ==
  { <<"R","2","7","/","0","6","0","0">>,
    <<"R","0","9","L","/","P","1","5","0","0">>,
    <<"R","2","7","R","/","M","0","0","5","0","N">>,
    <<"R","0","6","/","0","6","0","0","V","1","0","0","0","U">>,
    <<"R","2","7","C","/","0","4","0","0","V","P","0","8","0","0","D">>,
    <<"R","0","9","/","0","3","0","0","V","0","2","0","0">>,
    <<"0","8","0","0">> }

TafRvrVocab ==
  { <<"R","1","8","/","0","2","5","0","V","0","1","5","0","N">>,
    <<"R","1","8","/","0","7","0","0">> }

InitRvr ==
  InitWith(MetarReports(RvrVocab, MaxMetarToks),
           TafReports(TafRvrVocab, MaxTafToks),
           OneRunwayTable)

SpecRvr == InitRvr /\ [][Next]_vars

\* cloud groups: the three ceiling groups, cloud amounts below them, CAVOK,
\* and a layer with a cloud type
CloudVocab ==
  { <<"B","K","N","0","0","3">>,
    <<"O","V","C","0","1","0">>,
    <<"V","V","0","0","2">>,
    <<"F","E","W","0","0","1">>,
    <<"S","C","T","0","0","2">>,
    <<"C","A","V","O","K">>,
    <<"B","K","N","0","0","4","C","B">> }

TafCloudVocab ==
  { <<"O","V","C","0","0","5">>,
    <<"C","A","V","O","K">> }

InitCloud ==
  InitJob(MetarReports(CloudVocab, MaxMetarToks),
          TafReports(TafCloudVocab, MaxTafToks),
          OneRunwayTable)

SpecCloud == InitCloud /\ [][NextThin]_vars

\* station identifiers that end in, or are, a weather code
StationIdents ==
  { <<"L","G","T","S">>,
    <<"L","T","C","B">>,
    <<"L","I","R","A">>,
    <<"V","C","T","S">> }

\* groups without weather, thunderstorm groups, a group that holds TS behind
\* other letters, and a cloud layer with CB
IdentVocab ==
  { <<"9","9","9","9">>,
    <<"2","7","0","1","0","K","T">>,
    <<"T","S","R","A">>,
    <<"V","C","T","S">>,
    <<"R","E","T","S">>,
    <<"B","K","N","0","2","0","C","B">> }

TafIdentVocab ==
  { <<"+","T","S","R","A">> }

\* one station of the list with its reports; the runway table has its entry
InitIdent ==
  /\ data \in UNION {
        [icao : {ic},
         metarRaw : {<<>>} \cup {JoinSp(<< <<"M","E","T","A","R">>, ic >> \o b) :
                                   b \in SeqsUpTo(IdentVocab, MaxMetarToks)},
         tafRaw : {<<>>} \cup {JoinSp(<< <<"T","A","F">>, ic >> \o b) :
                                 b \in SeqsUpTo(TafIdentVocab, MaxTafToks)}] :
        ic \in StationIdents }
  /\ runwaysJson = [x \in {data.icao} |-> << Rwy(Some(90), Some(270), Some(45)) >>]
  /\ runwaysMap = None
  /\ stations = <<>>
  /\ pc = "refresh"
  /\ OneStationPage

SpecIdent == InitIdent /\ [][Next]_vars

\* station records of data/latest.json whose identifier is not of four
\* characters, next to one that is
MisusedIcaos ==
  { StationIcao, <<"L","G","T">>, <<"L","G","T","S","A">>, <<>> }

InitMisuse ==
  /\ data \in [icao : MisusedIcaos,
               metarRaw : MetarReports(CloudVocab, MaxMetarToks),
               tafRaw : TafReports(TafCloudVocab, MaxTafToks)]
  /\ runwaysJson \in OneRunwayTable
  /\ runwaysMap = None
  /\ stations = <<>>
  /\ pc = "refresh"
  /\ OneStationPage

SpecMisuse == InitMisuse /\ [][Next]_vars

\* datasets of two stations in both orders: engine ice conditions, low
\* visibility, a missing METAR, with and without a TAF; the METAR of the
\* first station always has a wind across the runway
OtherIcao == <<"E","G","L","L">>

ReportOf(kind, icao, body) == JoinSp(<<kind, icao>> \o body)

ListDatasets ==
  LET metar(ic, b) == ReportOf(<<"M","E","T","A","R">>, ic, b)
      low == << <<"0","3","0","0">>, <<"1","8","0","3","0","K","T">> >>
      ice == << <<"0","1","5","0">>, <<"F","Z","F","G">>, <<"1","8","0","3","0","K","T">> >>
      first == [icao : {StationIcao},
                metarRaw : {metar(StationIcao, ice), metar(StationIcao, low)},
                tafRaw : {<<>>, ReportOf(<<"T","A","F">>, StationIcao, << <<"0","1","0","0">> >>)}]
      second == [icao : {OtherIcao},
                 metarRaw : {metar(OtherIcao, low), <<>>},
                 tafRaw : {<<>>}]
  IN UNION {{<<a, b>>, <<b, a>>} : a \in first, b \in second}

\* role files: the first station a base and the other an alternate, or the
\* other a destination and the first without role
RoleFiles ==
  { (StationIcao :> <<"B","A","S","E">>) @@ (OtherIcao :> <<"A","L","T">>),
    (OtherIcao :> <<"D","E","S","T">>) }

InitList ==
  /\ \E d \in ListDatasets : data = d[1] /\ dataRest = Tail(d)
  /\ runwaysJson = [x \in {StationIcao, OtherIcao} |-> << Rwy(Some(90), Some(270), Some(45)) >>]
  /\ runwaysMap = None
  /\ stations = <<>>
  /\ pc = "refresh"
  /\ rolesMap \in RoleFiles
  /\ view = [sortPri |-> TRUE]
  /\ rows = <<>>
  /\ localStorage = EmptyStorage
  /\ lastGeneratedAt = None
  /\ now = 0
  /\ airports = <<>>
  /\ roles = <<>>

NextList ==
  fetchRunways \/ applyDataFromLatest \/ setSortPri \/ poll(ListDatasets)

SpecList == InitList /\ [][NextList]_vars

\* datasets of one station for the trend pill: two observation times with
\* a lower, a higher or no visibility, a METAR without time group, and no
\* METAR
TrendDatasets ==
  LET metar(b) == ReportOf(<<"M","E","T","A","R">>, StationIcao, b)
      times == { <<"0","5","1","1","5","0","Z">>, <<"0","5","1","2","2","0","Z">> }
      groups == { << <<"0","3","0","0">> >>, << <<"0","8","0","0">> >>, <<>> }
      metars == {metar(<<t>> \o g) : t \in times, g \in groups}
                  \cup {metar(<< <<"0","3","0","0">> >>), <<>>}
  IN { << [icao |-> StationIcao, metarRaw |-> m, tafRaw |-> <<>>] >> : m \in metars }

InitTrend ==
  /\ \E d \in TrendDatasets : data = d[1] /\ dataRest = Tail(d)
  /\ runwaysJson \in OneRunwayTable
  /\ runwaysMap = None
  /\ stations = <<>>
  /\ pc = "refresh"
  /\ rolesMap = <<>>
  /\ view = [sortPri |-> TRUE]
  /\ rows = <<>>
  /\ localStorage = EmptyStorage
  /\ lastGeneratedAt = None
  /\ now = 0
  /\ airports = <<>>
  /\ roles = <<>>

NextTrend ==
  fetchRunways \/ applyDataFromLatest \/ setSortPri \/ poll(TrendDatasets)

SpecTrend == InitTrend /\ [][NextTrend]_vars

(***************************************************************************)
(* The Stats page (the script of src/README.md): the local history in      *)
(* localStorage.  The clock counts hours; a timestamp is an hour.          *)
(***************************************************************************)
MAX_HISTORY == 200
MAX_EVENTS_PER_ICAO == 300
MAX_SERIES_PER_ICAO == 500
MAX_AGE_HOURS == 48

\* the entries of a list that the time window keeps: those without a
\* numeric timestamp and those not older than the cutoff
keptByWindow(list, clock) ==
  LET cutoff == clock - MAX_AGE_HOURS
      keep(e) == ~IsNum(e.t) \/ e.t[1] >= cutoff
  IN SelectSeq(list, keep)

\* addHistoryEntry(entry) at clock time clock
addHistoryEntry(ls, clock, entry) ==
  LET pruned == keptByWindow(<<entry>> \o ls.history, clock)
  IN [ls EXCEPT !.history = IF Len(pruned) > MAX_HISTORY
                              THEN SubSeq(pruned, 1, MAX_HISTORY) ELSE pruned]

putStationSnap(ls, icao, snap) ==
  [ls EXCEPT !.snaps = [x \in DOMAIN ls.snaps \cup {icao} |->
                          IF x = icao THEN snap ELSE ls.snaps[x]]]

getStationSnap(ls, icao) ==
  IF icao \in DOMAIN ls.snaps THEN Some(ls.snaps[icao]) ELSE None

\* pushEvent(icao, ev) at clock time clock
pushEvent(ls, clock, icao, ev) ==
  LET arr == IF icao \in DOMAIN ls.events THEN ls.events[icao] ELSE <<>>
      kept == keptByWindow(<<ev>> \o arr, clock)
      cut == IF Len(kept) > MAX_EVENTS_PER_ICAO
               THEN SubSeq(kept, 1, MAX_EVENTS_PER_ICAO) ELSE kept
  IN [ls EXCEPT !.events = [x \in DOMAIN ls.events \cup {icao} |->
                              IF x = icao THEN cut ELSE ls.events[x]]]

\* pushSeriesPoint whose cap keeps the oldest points
pushSeriesPoint_KeepOldest(ls, clock, icao, pt) ==
  LET arr == IF icao \in DOMAIN ls.series THEN ls.series[icao] ELSE <<>>
      kept == keptByWindow(arr \o <<pt>>, clock)
      cut == IF Len(kept) > MAX_SERIES_PER_ICAO
               THEN SubSeq(kept, 1, MAX_SERIES_PER_ICAO) ELSE kept
  IN [ls EXCEPT !.series = [x \in DOMAIN ls.series \cup {icao} |->
                              IF x = icao THEN cut ELSE ls.series[x]]]

\* pushSeriesPoint(icao, pt) at clock time clock
pushSeriesPoint(ls, clock, icao, pt) ==
  LET arr == IF icao \in DOMAIN ls.series THEN ls.series[icao] ELSE <<>>
      kept == keptByWindow(arr \o <<pt>>, clock)
      cut == IF Len(kept) > MAX_SERIES_PER_ICAO
               THEN SubSeq(kept, Len(kept) - MAX_SERIES_PER_ICAO + 1, Len(kept))
               ELSE kept
  IN [ls EXCEPT !.series = [x \in DOMAIN ls.series \cup {icao} |->
                              IF x = icao THEN cut ELSE ls.series[x]]]

\* the events detectChanges(icao, prev, cur) pushes, in its order
changesOf(prev, cur) ==
  LET ev(metric, dir, from, value) ==
        [t |-> cur.t, metric |-> metric, dir |-> dir, from |-> from, value |-> value]
      moved(p, c, worseWhenLess) ==
        IF (c[1] < p[1]) = worseWhenLess THEN "WORSE" ELSE "BETTER"
      visEv == IF IsNum(prev.vis) /\ IsNum(cur.vis) /\ prev.vis # cur.vis
                 THEN <<ev("VIS", moved(prev.vis, cur.vis, TRUE), prev.vis, cur.vis)>>
               ELSE IF prev.vis = None /\ IsNum(cur.vis)
                 THEN <<ev("VIS", "CHG", None, cur.vis)>>
               ELSE <<>>
      rvrEv == IF IsNum(prev.rvr) /\ IsNum(cur.rvr) /\ prev.rvr # cur.rvr
                 THEN <<ev("RVR", moved(prev.rvr, cur.rvr, TRUE), prev.rvr, cur.rvr)>>
               ELSE <<>>
      cigEv == IF IsNum(prev.cig) /\ IsNum(cur.cig) /\ prev.cig # cur.cig
                 THEN <<ev("CIG", moved(prev.cig, cur.cig, TRUE), prev.cig, cur.cig)>>
               ELSE <<>>
      gustEv == IF IsNum(prev.gust) /\ IsNum(cur.gust) /\ prev.gust # cur.gust
                  THEN <<ev("GUST", moved(prev.gust, cur.gust, FALSE), prev.gust, cur.gust)>>
                ELSE IF prev.gust = None /\ IsNum(cur.gust)
                  THEN <<ev("GUST", "CHG", None, cur.gust)>>
                ELSE <<>>
      snEv == IF prev.snow # cur.snow
                THEN <<ev("SN", "CHG", prev.snow, cur.snow)>> ELSE <<>>
      wxEv == IF prev.wx # cur.wx THEN <<ev("WX", "CHG", prev.wx, cur.wx)>> ELSE <<>>
  IN visEv \o rvrEv \o cigEv \o gustEv \o snEv \o wxEv

RECURSIVE pushEvents(_, _, _, _, _)
pushEvents(ls, clock, icao, evs, k) ==
  IF k > Len(evs) THEN ls
  ELSE pushEvents(pushEvent(ls, clock, icao, evs[k]), clock, icao, evs, k + 1)

detectChanges(ls, clock, icao, prev, cur) ==
  pushEvents(ls, clock, icao, changesOf(prev, cur), 1)

\* toSnap(st, tMs) for a station of the dataset that carries the numeric
\* fields of the job and no report text: parseVisM, parseGustKt,
\* parseRvrMin and parseCeilingFt of no text are null, hasSnow is false and
\* wxTokens is empty
toSnap(st, tMs) ==
  LET vis == None
      tafVis == None
      worstVis == IF IsNum(st.worst_visibility_m) THEN st.worst_visibility_m
                  ELSE IF IsNum(vis) /\ IsNum(tafVis)
                    THEN Some(IF vis[1] < tafVis[1] THEN vis[1] ELSE tafVis[1])
                  ELSE IF vis # None THEN vis ELSE tafVis
  IN [t |-> Some(tMs), vis |-> worstVis, gust |-> None, rvr |-> None,
      cig |-> st.ceiling_ft, snow |-> FALSE, wx |-> <<>>]

\* the loop of refresh over the stations of the dataset
RECURSIVE recordStations(_, _, _, _, _)
recordStations(ls, clock, tMs, sts, k) ==
  IF k > Len(sts) THEN ls
  ELSE LET icao == toUpperCase(sts[k].icao)
           curSnap == toSnap(sts[k], tMs)
           prev == getStationSnap(ls, icao)
           seen == IF prev # None THEN detectChanges(ls, clock, icao, prev[1], curSnap)
                   ELSE ls
           put == putStationSnap(seen, icao, curSnap)
           pt == [t |-> Some(tMs), vis |-> curSnap.vis, rvr |-> curSnap.rvr,
                  cig |-> curSnap.cig, gust |-> curSnap.gust,
                  wx |-> Len(curSnap.wx), snow |-> IF curSnap.snow THEN 1 ELSE 0]
       IN IF icao = <<>> THEN recordStations(ls, clock, tMs, sts, k + 1)
          ELSE recordStations(pushSeriesPoint(put, clock, icao, pt), clock, tMs,
                              sts, k + 1)

\* the generatedAt texts of the datasets and the hour Date.parse gives
\* each; no hour for a text that is no date
GeneratedAts ==
  { [text |-> "2026-01-02T23:00:00Z", hour |-> Some(47)],
    [text |-> "2026-01-03T09:00:00Z", hour |-> Some(57)],
    [text |-> "2026-01-01T01:00:00Z", hour |-> Some(1)],
    [text |-> "n/a", hour |-> None] }

DateParse(text) == (CHOOSE g \in GeneratedAts : g.text = text).hour

\* what the recording part of refresh stores for dataset d at clock time
\* clock
recorded(ls, clock, d) ==
  LET genAt == d.generatedAt
      genMs == IF genAt # None THEN DateParse(genAt[1]) ELSE None
      hist == addHistoryEntry(ls, clock,
                [t |-> Some(clock), generatedAt |-> genAt, genMs |-> genMs,
                 total |-> Len(d.stations)])
      tMs == IF IsNum(genMs) /\ genMs[1] # 0 THEN genMs[1] ELSE clock
  IN recordStations(hist, clock, tMs, d.stations, 1)

\* the hours between two refreshes
ClockSteps == {10, 25}

MaxNow == 83

\* the datasets the Stats page fetches
StatsDatasets ==
  LET st(v, c) == [icao |-> StationIcao, worst_visibility_m |-> v, ceiling_ft |-> c]
      gen(text) == Some(text)
  IN { [generatedAt |-> gen(g), stations |-> <<st(Some(v), Some(400))>>] :
         g \in {"2026-01-02T23:00:00Z", "2026-01-03T09:00:00Z"}, v \in {300, 800} }
     \cup { [generatedAt |-> gen("2026-01-01T01:00:00Z"),
             stations |-> <<st(None, Some(200))>>],
            [generatedAt |-> gen("n/a"),
             stations |-> <<st(Some(300), None), [st(Some(300), None) EXCEPT !.icao = <<>>]>>],
            [generatedAt |-> None, stations |-> <<st(Some(800), Some(400))>>] }

\* refresh(force): the fetch fails, or gives a dataset that is recorded
\* when forced or when its generatedAt is new
refresh(force) ==
  /\ \E dt \in ClockSteps :
       /\ now + dt <= MaxNow
       /\ now' = now + dt
  /\ \/ UNCHANGED <<localStorage, lastGeneratedAt>>
     \/ \E d \in StatsDatasets :
          LET genAt == d.generatedAt
              changed == force \/ (genAt # None /\ genAt # lastGeneratedAt)
          IN IF changed
               THEN /\ lastGeneratedAt' = genAt
                    /\ \E ls \in {recorded(localStorage, now', d)} : localStorage' = ls
               ELSE UNCHANGED <<localStorage, lastGeneratedAt>>
  /\ UNCHANGED <<data, runwaysJson, runwaysMap, stations, pc, dataRest, rolesMap,
                 view, rows, airports, roles>>

\* the local history of a browser that has had the page open for a day:
\* the refresh list at its cap, the events and the series of the station
\* one entry below theirs, the newest timestamp at hour 48
UsedStorage ==
  LET old(k, per) == Some(MAX_AGE_HOURS - ((k - 1) \div per))
      snap == [t |-> Some(MAX_AGE_HOURS), vis |-> Some(800), gust |-> None, rvr |-> None,
               cig |-> Some(400), snow |-> FALSE, wx |-> <<>>]
  IN [prevMetar |-> <<>>,
      history |-> [k \in 1..MAX_HISTORY |->
                     [t |-> old(k, 10), generatedAt |-> Some("2026-01-02T23:00:00Z"),
                      genMs |-> old(k, 10), total |-> 1]],
      snaps |-> [x \in {StationIcao} |-> snap],
      events |-> [x \in {StationIcao} |->
                    [k \in 1..(MAX_EVENTS_PER_ICAO - 1) |->
                       [t |-> old(k, 15), metric |-> "VIS", dir |-> "WORSE",
                        from |-> Some(800 + k), value |-> Some(800)]]],
      series |-> [x \in {StationIcao} |->
                    [k \in 1..(MAX_SERIES_PER_ICAO - 1) |->
                       [t |-> old(MAX_SERIES_PER_ICAO - k, 25), vis |-> Some(800),
                        rvr |-> None, cig |-> Some(400), gust |-> None,
                        wx |-> 0, snow |-> 0]]]]

InitStats ==
  /\ data = [icao |-> StationIcao, metarRaw |-> <<>>, tafRaw |-> <<>>]
  /\ runwaysJson \in OneRunwayTable
  /\ runwaysMap = None
  /\ stations = <<>>
  /\ pc = "refresh"
  /\ dataRest = <<>>
  /\ rolesMap = <<>>
  /\ view = [sortPri |-> TRUE]
  /\ rows = <<>>
  /\ localStorage \in {EmptyStorage, UsedStorage}
  /\ lastGeneratedAt = None
  /\ now = MAX_AGE_HOURS
  /\ airports = <<>>
  /\ roles = <<>>

NextStats == refresh(FALSE) \/ refresh(TRUE)

SpecStats == InitStats /\ [][NextStats]_vars

(***************************************************************************)
(* The Settings page (assets/settings.js): the watchlist and the roles.    *)
(***************************************************************************)
RECURSIVE stripNonAlnum(_)
stripNonAlnum(s) ==
  IF s = <<>> THEN <<>>
  ELSE IF IsDigit(s[1]) \/ s[1] \in UpperSet THEN <<s[1]>> \o stripNonAlnum(Tail(s))
  ELSE stripNonAlnum(Tail(s))

normalizeIcao(s) ==
  LET v == stripNonAlnum(toUpperCase(Trim(s)))
  IN IF Len(v) = 4 THEN v ELSE <<>>

\* the pieces of s between the characters of seps, empty pieces included
RECURSIVE splitAt(_, _, _)
splitAt(s, seps, cur) ==
  IF s = <<>> THEN <<cur>>
  ELSE IF s[1] \in seps THEN <<cur>> \o splitAt(Tail(s), seps, <<>>)
  ELSE splitAt(Tail(s), seps, cur \o <<s[1]>>)

\* the first match of \b[A-Z0-9]{4}\b in a line: the first run of word
\* characters that is four capital letters or digits long
RECURSIVE firstIcaoIn(_, _)
firstIcaoIn(line, run) ==
  LET hit == Len(run) = 4 /\ \A k \in 1..4 : IsDigit(run[k]) \/ run[k] \in UpperSet
  IN IF line = <<>> THEN (IF hit THEN run ELSE <<>>)
     ELSE IF IsWordChar(line[1]) THEN firstIcaoIn(Tail(line), run \o <<line[1]>>)
     ELSE IF hit THEN run
     ELSE firstIcaoIn(Tail(line), <<>>)

RECURSIVE parseLines(_, _, _)
parseLines(lines, k, out) ==
  IF k > Len(lines) THEN out
  ELSE LET icao == firstIcaoIn(toUpperCase(lines[k]), <<>>)
       IN IF icao = <<>> \/ \E j \in 1..Len(out) : out[j] = icao
            THEN parseLines(lines, k + 1, out)
            ELSE parseLines(lines, k + 1, out \o <<icao>>)

parseAirportsTxt(txt) == parseLines(splitAt(txt, {"\n"}, <<>>), 1, <<>>)

\* the roles object as the list of its entries
RECURSIVE sanitizeRoles(_, _, _)
sanitizeRoles(entries, k, out) ==
  IF k > Len(entries) THEN out
  ELSE LET icao == normalizeIcao(entries[k].key)
           r == normalizeRole(entries[k].value)
       IN IF icao = <<>> \/ r = <<"O","T","H","E","R">> THEN sanitizeRoles(entries, k + 1, out)
          ELSE sanitizeRoles(entries, k + 1,
                 [x \in DOMAIN out \cup {icao} |-> IF x = icao THEN r ELSE out[x]])

without(map, key) == [x \in DOMAIN map \ {key} |-> map[x]]

setRole(rs, icao, role) ==
  LET r == normalizeRole(role)
  IN IF r = <<"O","T","H","E","R">> THEN without(rs, icao)
     ELSE [x \in DOMAIN rs \cup {icao} |-> IF x = icao THEN r ELSE rs[x]]

\* addAirport that pushes without looking whether the airport is listed
addAirport_NoIncludes(as, rs, icao, role) ==
  LET v == normalizeIcao(icao)
  IN IF v = <<>> THEN [ok |-> FALSE, airports |-> as, roles |-> rs]
     ELSE [ok |-> TRUE, airports |-> as \o <<v>>, roles |-> setRole(rs, v, role)]

\* addAirport(icao, role): its result and the two variables after it
addAirport(as, rs, icao, role) ==
  LET v == normalizeIcao(icao)
      listed == \E k \in 1..Len(as) : as[k] = v
  IN IF v = <<>> THEN [ok |-> FALSE, airports |-> as, roles |-> rs]
     ELSE [ok |-> TRUE,
           airports |-> IF listed THEN as ELSE as \o <<v>>,
           roles |-> setRole(rs, v, role)]

removeAirport(as, rs, icao) ==
  LET other(x) == x # icao
  IN [airports |-> SelectSeq(as, other), roles |-> without(rs, icao)]

RECURSIVE joinLines(_)
joinLines(list) ==
  IF list = <<>> THEN <<>>
  ELSE list[1] \o (IF Len(list) > 1 THEN <<"\n">> ELSE <<>>) \o joinLines(Tail(list))

RECURSIVE rolesObjOf(_, _, _)
rolesObjOf(as, rs, k) ==
  IF k > Len(as) THEN <<>>
  ELSE LET r == normalizeRole(IF as[k] \in DOMAIN rs THEN rs[as[k]] ELSE <<>>)
       IN (IF r # <<"O","T","H","E","R">> THEN << [key |-> as[k], value |-> r] >> ELSE <<>>)
            \o rolesObjOf(as, rs, k + 1)

\* buildExports(): the text of airports.txt and the members of the roles
\* object in the order JSON.stringify writes them
buildExports(as, rs) ==
  [airportsTxt |-> joinLines(as) \o (IF Len(as) > 0 THEN <<"\n">> ELSE <<>>),
   rolesObj |-> rolesObjOf(as, rs, 1)]

\* the files the page loads: airports.txt and config/airport_roles.json
LoadedConfigs ==
  { [airportsTxt |-> <<"L","G","T","S","\n","E","G","L","L","\n">>,
     roles |-> << [key |-> <<"L","G","T","S">>, value |-> <<"B","A","S","E">>],
                  [key |-> <<"E","G","L","L">>, value |-> <<"O","T","H","E","R">>] >>],
    [airportsTxt |-> <<"L","G","T","S"," ","#"," ","b","a","s","e","\n","l","g","t","s","\n","E","G","L","\n","L","I","R","A","-","X","\n","E","G","_","L","L">>,
     roles |-> << [key |-> <<"l","g","t","s"," ">>, value |-> <<"a","l","t","e","r","n","a","t","e">>],
                  [key |-> <<"K","J","F","K">>, value |-> <<"D","E","S","T">>],
                  [key |-> <<"E","G">>, value |-> <<"B","A","S","E">>] >>],
    [airportsTxt |-> <<>>, roles |-> <<>>] }

\* what is typed into the add field and the roles of the select
AddInputs == { <<"L","I","R","A">>, <<" ","e","g","l","l"," ">>, <<"L","I","R">>, <<"l","i","-","r","a">>, <<"L","I","R","A","X">>, <<>> }
ROLE_ORDER == << <<"B","A","S","E">>, <<"D","E","S","T">>, <<"A","L","T">>, <<"O","T","H","E","R">> >>

\* the texts of the bulk field
BulkInputs == { <<"e","g","l","l",","," ","L","I","R",";","k","j","f","k">>, <<"L","I","R"," ","L","I","R","A","X">> }

settingsRest ==
  <<data, runwaysJson, runwaysMap, stations, pc, dataRest, rolesMap, view, rows,
    localStorage, lastGeneratedAt, now>>

loadFromRepo ==
  /\ \E c \in LoadedConfigs :
       /\ airports' = parseAirportsTxt(c.airportsTxt)
       /\ roles' = sanitizeRoles(c.roles, 1, <<>>)
  /\ UNCHANGED settingsRest

\* the click on Add
btnAdd ==
  /\ \E icao \in AddInputs : \E k \in 1..Len(ROLE_ORDER) :
       \E r \in {addAirport(airports, roles, icao, ROLE_ORDER[k])} :
         airports' = r.airports /\ roles' = r.roles
  /\ UNCHANGED settingsRest

RECURSIVE addMany(_, _, _, _)
addMany(as, rs, items, k) ==
  IF k > Len(items) THEN [airports |-> as, roles |-> rs]
  ELSE LET r == addAirport(as, rs, items[k], <<"O","T","H","E","R">>)
       IN addMany(r.airports, r.roles, items, k + 1)

\* the click on Add many
btnAddMany ==
  /\ \E bulk \in BulkInputs :
       LET nonEmpty(x) == x # <<>>
           norm == [k \in DOMAIN splitAt(bulk, {" ", ",", ";"}, <<>>) |->
                      normalizeIcao(splitAt(bulk, {" ", ",", ";"}, <<>>)[k])]
       IN \E r \in {addMany(airports, roles, SelectSeq(norm, nonEmpty), 1)} :
            airports' = r.airports /\ roles' = r.roles
  /\ UNCHANGED settingsRest

\* the change of the role select of a row
roleSelChange ==
  /\ \E i \in 1..Len(airports) : \E k \in 1..Len(ROLE_ORDER) :
       roles' = setRole(roles, airports[i], ROLE_ORDER[k])
  /\ UNCHANGED airports
  /\ UNCHANGED settingsRest

\* the click on Remove of a row
delBtn ==
  /\ \E i \in 1..Len(airports) :
       \E r \in {removeAirport(airports, roles, airports[i])} :
         airports' = r.airports /\ roles' = r.roles
  /\ UNCHANGED settingsRest

InitSettings ==
  /\ data = [icao |-> StationIcao, metarRaw |-> <<>>, tafRaw |-> <<>>]
  /\ runwaysJson \in OneRunwayTable
  /\ runwaysMap = None
  /\ stations = <<>>
  /\ pc = "refresh"
  /\ dataRest = <<>>
  /\ rolesMap = <<>>
  /\ view = [sortPri |-> TRUE]
  /\ rows = <<>>
  /\ localStorage = EmptyStorage
  /\ lastGeneratedAt = None
  /\ now = 0
  /\ airports = <<>>
  /\ roles = <<>>

NextSettings == loadFromRepo \/ btnAdd \/ btnAddMany \/ roleSelChange \/ delBtn

SpecSettings == InitSettings /\ [][NextSettings]_vars

(***************************************************************************)
(* The claims.                                                             *)
(***************************************************************************)
\* the white-space separated tokens of a report, upper-cased
TokensOf(raw) == LET t == SplitWs(toUpperCase(raw)) IN {t[k] : k \in 1..Len(t)}

\* the weather groups of a report: its tokens without digits or "/"
WxGroupsOf(raw) ==
  {t \in TokensOf(raw) : ~Includes(t, <<"/">>) /\ \A k \in 1..Len(t) : ~IsDigit(t[k])}

\* some weather group of either report is coded with one of the codes
ShowsAny(s, codes) ==
  \E t \in WxGroupsOf(s.metarRaw) \cup WxGroupsOf(s.tafRaw) :
    \E c \in codes : Includes(t, c)

HeavyPrecipTokens ==
  { <<"+","S","N">>,
    <<"+","G","S">>,
    <<"+","S","G">>,
    <<"+","P","L">>,
    <<"F","Z","R","A">>,
    <<"+","F","Z","R","A">>,
    <<"G","R">>,
    <<"+","G","R">> }

\* C1: toProhib is true if and only if one of the heavy-precipitation tokens
\* +SN, +GS, +SG, +PL, FZRA, +FZRA, GR, +GR is a token of the METAR or of the
\* TAF, whatever the other fields of the reports are.
C1_ToProhibIffHeavyToken ==
  \A k \in 1..Len(stations) :
    LET s == stations[k]
    IN s.om.toProhib <=>
         (TokensOf(s.metarRaw) \cup TokensOf(s.tafRaw)) \cap HeavyPrecipTokens # {}

\* C6: the runway condition is SEVERE (2) if FZRA/FZDZ/PL/GR is shown, else
\* CONTAM (3) if snow (SN/SG/GS, alone or in BLSN/DRSN/SHSN) is shown, else
\* WET (5) if RA/DZ is shown, else DRY (6); a pair showing snow and rain in any
\* weather group is CONTAM; noOpsLikely is true exactly when the estimate is < 3.
C6_RunwayConditionByPriority ==
  \A k \in 1..Len(stations) :
    LET s == stations[k]
        severe == ShowsAny(s, {<<"F","Z","R","A">>, <<"F","Z","D","Z">>, <<"P","L">>, <<"G","R">>})
        snow == ShowsAny(s, {<<"S","N">>, <<"S","G">>, <<"G","S">>})
        rain == ShowsAny(s, {<<"R","A">>, <<"D","Z">>})
        est == IF severe THEN 2 ELSE IF snow THEN 3 ELSE IF rain THEN 5 ELSE 6
    IN /\ s.om.rwyccEst = est
       /\ s.om.xwindCond = (IF severe THEN "SEVERE" ELSE IF snow THEN "CONTAM"
                            ELSE IF rain THEN "WET" ELSE "DRY")
       /\ (~severe /\ snow /\ rain => s.om.xwindCond = "CONTAM")
       /\ s.om.noOpsLikely <=> (s.om.rwyccEst < 3)

\* the smallest threshold of ths the value v is at or below, 0 if none
TightestBand(ths, v) ==
  LET q == {ths[i] : i \in {j \in 1..Len(ths) : v <= ths[j]}}
  IN IF q = {} THEN 0 ELSE CHOOSE t \in q : \A u \in q : t <= u

\* the numbers of the triggers of a station that carry the label
TagNumbers(s, label) ==
  {s.triggers[i].n : i \in {j \in 1..Len(s.triggers) : s.triggers[j].label = label}}
TagCount(s, label) ==
  Cardinality({j \in 1..Len(s.triggers) : s.triggers[j].label = label})

\* C2: the VIS<=N tag of deriveStation and visBucket give the smallest
\* threshold of VIS_THRESHOLDS the worst visibility is at or below, the RVR<=N
\* tag the smallest threshold of RVR_THRESHOLDS the minimum RVR is at or below,
\* and at most one VIS and one RVR bucket tag is emitted.
C2_TightestVisRvrBucket ==
  \A k \in 1..Len(stations) :
    LET s == stations[k]
        visN == IF IsNum(s.worstVis) THEN TightestBand(VIS_THRESHOLDS, s.worstVis[1])
                                     ELSE 0
        rvrN == IF IsNum(s.rvrMinAll) THEN TightestBand(RVR_THRESHOLDS, s.rvrMinAll[1])
                                      ELSE 0
    IN /\ TagCount(s, "VIS<=") <= 1
       /\ TagCount(s, "RVR<=") <= 1
       /\ TagNumbers(s, "VIS<=") = (IF visN = 0 THEN {} ELSE {visN})
       /\ TagNumbers(s, "RVR<=") = (IF rvrN = 0 THEN {} ELSE {rvrN})
       /\ visBucket(s.worstVis) = (IF visN = 0 THEN None ELSE Some(visN))

\* the three evaluations of a station with the RVR minimum each one is given:
\* both reports, the METAR alone, the TAF alone
OmEvaluations(s) ==
  { [om |-> s.om, rvr |-> s.rvrMinAll, src |-> "MT"],
    [om |-> s.omMet, rvr |-> s.met.rvrMin, src |-> "M"],
    [om |-> s.omTaf, rvr |-> s.taf.rvrMin, src |-> "T"] }

CatTrioCount(om) ==
  (IF om.cat2Plus THEN 1 ELSE 0) + (IF om.cat3Only THEN 1 ELSE 0)
    + (IF om.cat3BelowMin THEN 1 ELSE 0)

\* C3 (as claimed): with an RVR minimum below 75 m exactly one flag of the trio
\* cat2Plus, cat3Only, cat3BelowMin is true, namely cat3BelowMin.
C3_ExactlyOneCatFlag ==
  \A k \in 1..Len(stations) :
    \A e \in OmEvaluations(stations[k]) :
      (IsNum(e.rvr) /\ e.rvr[1] < 75) =>
        (e.om.cat3BelowMin /\ CatTrioCount(e.om) = 1)

\* the sources ("M", "T", "MT") of the triggers of a station with the label
TagSources(s, label) ==
  {s.triggers[i].src : i \in {j \in 1..Len(s.triggers) : s.triggers[j].label = label}}

\* C3 (amended): with an RVR minimum below 75 m the three flags are all true
\* (they are nested thresholds 450/200/75) and the one band surfaced is the
\* tightest: omCatBand gives cat3min, and for a single report's evaluation
\* the CAT3<75 tag is emitted for that report and no looser CAT tag is.
C3_TightestCatBandSurfaced ==
  \A k \in 1..Len(stations) :
    LET s == stations[k]
    IN \A e \in OmEvaluations(s) :
         (IsNum(e.rvr) /\ e.rvr[1] < 75) =>
           /\ e.om.cat3BelowMin /\ e.om.cat3Only /\ e.om.cat2Plus
           /\ omCatBand(e.om) = "cat3min"
           /\ e.src # "MT" =>
                /\ TagSources(s, "CAT3<75") \subseteq {e.src, "MT"}
                /\ TagSources(s, "CAT3<75") # {}
                /\ TagSources(s, "CAT3 ONLY <200") \subseteq ({"M", "T"} \ {e.src})
                /\ TagSources(s, "CAT2+ <450") \subseteq ({"M", "T"} \ {e.src})

C3_Witness ==
  \E k \in 1..Len(stations) :
    /\ IsNum(stations[k].met.rvrMin) /\ stations[k].met.rvrMin[1] < 75
    /\ stations[k].omMet.cat3BelowMin
    /\ TagSources(stations[k], "CAT3<75") = {"M"}

\* the visibility minimum of a report pair, from the tokens of the texts
VisMinOf(metarRaw, tafRaw) ==
  LET m == parseVisibilityMeters(metarRaw)
      t == extractAllVisibilityMetersFromTAF(tafRaw)
  IN IF m \o t = <<>> THEN None ELSE Some(MinOf(m \o t))
RvrMinOf(metarRaw, tafRaw) ==
  LET v == extractRvrMeters(metarRaw) \o extractRvrMeters(tafRaw)
  IN IF v = <<>> THEN None ELSE Some(MinOf(v))

\* C4: the reference visibility is the RVR minimum whenever an RVR value
\* exists and the visibility minimum otherwise; lvto is true exactly when it
\* is < 550 and lvp exactly when it is < 400 (400 sets lvto only, 550 neither).
C4_RefVisStrictThresholds ==
  \A k \in 1..Len(stations) :
    LET s == stations[k]
        check(om, vis, rvr) ==
          /\ IsNum(rvr) => (om.lvto <=> rvr[1] < 550) /\ (om.lvp <=> rvr[1] < 400)
          /\ (~IsNum(rvr) /\ IsNum(vis)) =>
               (om.lvto <=> vis[1] < 550) /\ (om.lvp <=> vis[1] < 400)
          /\ (~IsNum(rvr) /\ ~IsNum(vis)) => (~om.lvto /\ ~om.lvp)
          /\ (IsNum(rvr) /\ rvr[1] = 400) => (om.lvto /\ ~om.lvp)
          /\ (IsNum(rvr) /\ rvr[1] = 550) => (~om.lvto /\ ~om.lvp)
    IN /\ check(s.om, VisMinOf(s.metarRaw, s.tafRaw), RvrMinOf(s.metarRaw, s.tafRaw))
       /\ check(s.omMet, VisMinOf(s.metarRaw, <<>>), RvrMinOf(s.metarRaw, <<>>))
       /\ s.metarRaw = ScenarioMetar => (s.omMet.lvto /\ ~s.omMet.lvp)

\* the scenario METAR (1/4SM, R27/0400) has been evaluated: RVR 400 is the
\* reference although the visibility is 402, and only lvto is set
C4_Witness ==
  \E k \in 1..Len(stations) :
    /\ stations[k].metarRaw = ScenarioMetar
    /\ stations[k].met.vis = Some(402)
    /\ stations[k].met.rvrMin = Some(400)
    /\ stations[k].omMet.lvto /\ ~stations[k].omMet.lvp

\* an RVR group R<2 digits>[L|R|C]/[P|M]<4 digits> starts in some token
HasRvrGroup(raw) ==
  \E t \in TokensOf(raw) :
    \E i \in 1..Len(t) :
      LET r == SubSeq(t, i, Len(t))
          side == IF Len(r) >= 4 /\ r[4] \in {"L", "R", "C"} THEN 1 ELSE 0
          pm == IF Len(r) >= 5 + side /\ r[5 + side] \in {"P", "M"} THEN 1 ELSE 0
          d0 == 5 + side + pm
      IN /\ Len(r) >= d0 + 3
         /\ r[1] = "R" /\ r[2] \in DigitSet /\ r[3] \in DigitSet
         /\ r[4 + side] = "/"
         /\ \A j \in d0..(d0 + 3) : r[j] \in DigitSet
         /\ (i = 1 \/ ~IsWordChar(t[i - 1]))

\* C9 (as claimed): rvrRequired is true exactly when the visibility given to
\* the evaluation is below 800 m and neither the METAR nor the TAF of the
\* evaluation contains an RVR group.
C9_RvrRequiredIffNoRvrAnywhere ==
  \A k \in 1..Len(stations) :
    LET s == stations[k]
    IN s.om.rvrRequired <=>
         /\ IsNum(s.worstVis) /\ s.worstVis[1] < 800
         /\ ~HasRvrGroup(s.metarRaw) /\ ~HasRvrGroup(s.tafRaw)

\* C9 (amended): rvrRequired is true exactly when the visibility given to the
\* evaluation is below 800 m and the observation string, which is the METAR
\* when there is one and the TAF only when the METAR is empty, contains no
\* RVR group; an RVR group in the TAF does not clear the flag of a station
\* that has a METAR.
C9_RvrRequiredFromObservationString ==
  \A k \in 1..Len(stations) :
    LET s == stations[k]
        vis(v) == IsNum(v) /\ v[1] < 800
    IN /\ s.om.rvrRequired <=>
            /\ vis(s.worstVis)
            /\ IF s.metarRaw # <<>> THEN ~HasRvrGroup(s.metarRaw)
                                    ELSE ~HasRvrGroup(s.tafRaw)
       /\ s.omMet.rvrRequired <=> (vis(s.met.vis) /\ ~HasRvrGroup(s.metarRaw))
       /\ s.omTaf.rvrRequired <=> (vis(s.taf.vis) /\ ~HasRvrGroup(s.tafRaw))

\* a low-visibility METAR without RVR and a TAF with an RVR group
C9_Witness ==
  \E k \in 1..Len(stations) :
    /\ stations[k].om.rvrRequired
    /\ HasRvrGroup(stations[k].tafRaw) /\ ~HasRvrGroup(stations[k].metarRaw)
    /\ stations[k].metarRaw # <<>>


\* the runway array the table held by the page gives for a station, <<>> when
\* there is no table or no entry
RunwayEntry(icao) ==
  IF runwaysMap # None /\ icao \in DOMAIN runwaysMap[1] THEN runwaysMap[1][icao]
  ELSE <<>>

\* the runway ends of an entry as pairs <<heading, width or None>>
RunwayEnds(entry) ==
  UNION { {<<h[1], entry[i].width_m>> :
             h \in {x \in {entry[i].le_heading, entry[i].he_heading} : x # None}} :
          i \in 1..Len(entry) }

\* C5 (as claimed): without a runway entry for the station the crosswind
\* value and limit are null and the exceed flag is absent rather than false.
C5_NoRunwayExceedAbsent ==
  \A k \in 1..Len(stations) :
    LET s == stations[k]
    IN RunwayEntry(s.icao) = <<>> =>
         \A om \in {s.om, s.omMet, s.omTaf} :
           /\ om.xwindKt = None /\ om.xwindLimitKt = None
           /\ om.xwindExceed \notin BOOLEAN

\* C5 (amended): without a runway entry for the station (no table, no entry,
\* or an empty entry) the crosswind value and the crosswind limit are null,
\* the exceed flag is the boolean false, and the station is still derived.
C5_NoRunwayNullValueFalseFlag ==
  /\ (pc = "shown" /\ Len(data.icao) = 4) => Len(stations) = 1
  /\ \A k \in 1..Len(stations) :
       LET s == stations[k]
       IN RunwayEntry(s.icao) = <<>> =>
            \A om \in {s.om, s.omMet, s.omTaf} :
              /\ om.xwindKt = None /\ om.xwindLimitKt = None
              /\ om.xwindExceed = FALSE
              /\ om.xwindNarrow = None

\* a station with a numeric wind derived while the table has entries for
\* another station only
C5_Witness ==
  \E k \in 1..Len(stations) :
    /\ runwaysMap # None /\ DOMAIN runwaysMap[1] # {}
    /\ stations[k].icao \notin DOMAIN runwaysMap[1]
    /\ stations[k].om.xwindWindDir # None
    /\ stations[k].om.xwindKt = None /\ stations[k].om.xwindExceed = FALSE

\* the wind group the crosswind is computed from: the METAR's when the station
\* has a METAR, the TAF's otherwise
WindOf(s) == parseWindKt(IF s.metarRaw # <<>> THEN s.metarRaw ELSE s.tafRaw)
UsedSpeed(w) == IF w.gst # None /\ w.gst[1] > w.spd[1] THEN w.gst[1] ELSE w.spd[1]

\* the absolute difference of two directions wrapped to at most 180
WrappedAngle(a, b) ==
  LET d == (a - b) % 360 IN IF d <= 360 - d THEN d ELSE 360 - d

\* the crosswind values of the runway ends of a station for a wind
EndCrosswinds(s, w) ==
  {xwindComponent(UsedSpeed(w), WrappedAngle(w.dir[1], e[1])) :
     e \in RunwayEnds(RunwayEntry(s.icao))}

\* C7: for a wind with a numeric direction and a non-empty set of runway ends
\* the reported crosswind is the minimum over the runway ends of
\* round(max(speed, gust) * sin(angle)), angle being the wind/heading
\* difference wrapped to at most 180; 270/30 gives 0 against heading 090 and
\* 30 against heading 000.
C7_CrosswindIsMinOverRunwayEnds ==
  \A k \in 1..Len(stations) :
    LET s == stations[k]
        w == WindOf(s)
        ends == RunwayEnds(RunwayEntry(s.icao))
        only(h) == {e[1] : e \in ends} = {h}
    IN (w.dir # None /\ ends # {}) =>
         /\ s.om.xwindKt # None
         /\ s.om.xwindKt[1] \in EndCrosswinds(s, w)
         /\ \A x \in EndCrosswinds(s, w) : s.om.xwindKt[1] <= x
         /\ (w.dir = Some(270) /\ UsedSpeed(w) = 30 /\ only(90)) => s.om.xwindKt = Some(0)
         /\ (w.dir = Some(270) /\ UsedSpeed(w) = 30 /\ only(0)) => s.om.xwindKt = Some(30)

\* wind 030/12 gusting 40 against runway ends 090, 270, 000 and 180: the ends
\* differ in crosswind, the first end in loop order is not the best one, and
\* the gust is the speed used
C7_Witness ==
  \E k \in 1..Len(stations) :
    LET s == stations[k]
        w == WindOf(s)
    IN /\ w.dir = Some(30) /\ w.gst = Some(40)
       /\ {e[1] : e \in RunwayEnds(RunwayEntry(s.icao))} = {0, 90, 180, 270}
       /\ s.om.xwindKt = Some(20)
       /\ Cardinality(EndCrosswinds(s, w)) > 1

\* the crosswind limits by runway condition code, <<standard, narrow>>
LimitTable == [r \in 2..6 |->
                 CASE r = 6 -> <<38, 20>> [] r = 5 -> <<35, 20>> [] r = 4 -> <<20, 10>>
                   [] r = 3 -> <<15, 10>> [] r = 2 -> <<10, 5>>]

\* C8: the crosswind limit is 38/20, 35/20, 20/10, 15/10, 10/5 kt
\* (standard/narrow) for RWYCC 6, 5, 4, 3, 2 and has no entry below 2; narrow
\* means the selected runway end is less than 45 m wide; xwindExceed is true
\* exactly when the crosswind is strictly greater than the limit.
C8_CrosswindLimitTableAndExceed ==
  /\ \A r \in 2..6 : /\ crosswindLimitKt(r, FALSE) = Some(LimitTable[r][1])
                     /\ crosswindLimitKt(r, TRUE) = Some(LimitTable[r][2])
  /\ \A r \in 0..1 : \A n \in BOOLEAN : crosswindLimitKt(r, n) = None
  /\ \A k \in 1..Len(stations) :
       LET s == stations[k]
           om == s.om
           w == WindOf(s)
           ends == RunwayEnds(RunwayEntry(s.icao))
           \* the ends whose crosswind is the reported one
           bestEnds == {e \in ends :
                          xwindComponent(UsedSpeed(w), WrappedAngle(w.dir[1], e[1]))
                            = om.xwindKt[1]}
           narrowEnd(e) == e[2] # None /\ e[2][1] < 45
       IN om.xwindKt # None =>
            /\ om.rwyccEst \in 2..6
            /\ (\A e \in bestEnds : narrowEnd(e)) =>
                 om.xwindLimitKt = Some(LimitTable[om.rwyccEst][2])
            /\ (\A e \in bestEnds : ~narrowEnd(e)) =>
                 om.xwindLimitKt = Some(LimitTable[om.rwyccEst][1])
            /\ om.xwindExceed <=> om.xwindKt[1] > om.xwindLimitKt[1]

\* a crosswind equal to its limit (15 kt on a contaminated standard runway)
\* that does not exceed
C8_Witness ==
  \E k \in 1..Len(stations) :
    /\ stations[k].om.xwindKt = Some(15)
    /\ stations[k].om.xwindLimitKt = Some(15)
    /\ stations[k].om.xwindCond = "CONTAM"
    /\ ~stations[k].om.xwindExceed

\* C10: the final score and the final alert of a derived station agree:
\* severityScore is at least 70/45/20/0 for alert CRIT/HIGH/MED/OK, and the
\* base thresholds (CRIT >= 70, HIGH >= 45, MED >= 20, else OK) applied to
\* the final severityScore give exactly the final alert, also after a wind or
\* snow pillar has raised the alert.
C10_FinalScoreAgreesWithAlert ==
  \A k \in 1..Len(stations) :
    LET s == stations[k]
        sc == s.severityScore
    IN /\ s.alert \in {"CRIT", "HIGH", "MED", "OK"}
       /\ s.alert = "CRIT" <=> sc >= 70
       /\ s.alert = "HIGH" <=> (sc >= 45 /\ sc < 70)
       /\ s.alert = "MED" <=> (sc >= 20 /\ sc < 45)
       /\ s.alert = "OK" <=> sc < 20
       /\ sc <= 100

\* a pillar has raised the alert above what the scores of the two reports
\* give, and the final score has been lifted to the alert's minimum
C10_Witness ==
  \E k \in 1..Len(stations) :
    LET s == stations[k]
    IN /\ s.alert = "HIGH"
       /\ s.met.score < 45 /\ s.taf.score < 45
       /\ s.severityScore = 45

(***************************************************************************)
(* C11: alert pillars.                                                     *)
(***************************************************************************)
\* the alert levels in their order OK < MED < HIGH < CRIT
AlertRank(a) ==
  CASE a = "OK" -> 0 [] a = "MED" -> 1 [] a = "HIGH" -> 2 [] a = "CRIT" -> 3

HighestOf(alerts) ==
  CHOOSE a \in alerts : \A b \in alerts : AlertRank(b) <= AlertRank(a)

\* the white-space separated tokens of a report as written
RawTokensOf(raw) == LET t == SplitWs(raw) IN {t[k] : k \in 1..Len(t)}

\* a wind group with gust: ddd or VRB, 2-3 digits of speed, G, 2-3 digits, KT
IsGustGroup(t, g) ==
  /\ g \in 6..(Len(t) - 4)
  /\ t[g] = "G"
  /\ SubSeq(t, Len(t) - 1, Len(t)) = <<"K","T">>
  /\ Len(t) - 2 - g \in 2..3
  /\ AllDigits(SubSeq(t, g + 1, Len(t) - 2))
  /\ g - 4 \in 2..3
  /\ AllDigits(SubSeq(t, 4, g - 1))
  /\ (AllDigits(SubSeq(t, 1, 3)) \/ SubSeq(t, 1, 3) = <<"V","R","B">>)

\* the gust values of all wind groups of a report
GustsOf(raw) ==
  { parseInt(SubSeq(t, g + 1, Len(t) - 2)) :
      <<t, g>> \in {p \in UNION {{<<u, k>> : k \in 1..Len(u)} : u \in RawTokensOf(raw)} :
                      IsGustGroup(p[1], p[2])} }

\* the alert of the wind pillar for a station
WindAlertOf(s) ==
  LET gusts == GustsOf(s.metarRaw) \cup GustsOf(s.tafRaw)
  IN IF \E g \in gusts : g >= 40 THEN "CRIT"
     ELSE IF \E g \in gusts : g >= 30 THEN "HIGH"
     ELSE IF \E g \in gusts : g >= 25 THEN "MED"
     ELSE "OK"

\* the alert of the combined score before escalation
BaseAlertOf(s) ==
  LET tafPart == (s.taf.score * 85) \div 100
      combined == IF s.engIceOps THEN 100
                  ELSE IF s.met.score >= tafPart THEN s.met.score ELSE tafPart
  IN IF combined >= 70 THEN "CRIT"
     ELSE IF combined >= 45 THEN "HIGH"
     ELSE IF combined >= 20 THEN "MED"
     ELSE "OK"

\* the alert of the snow pillar for a station
SnowAlertOf(s) ==
  LET atMost(x, lim) == IsNum(x) /\ x[1] <= lim
      below(x, lim) == IsNum(x) /\ x[1] < lim
  IN IF s.met.hz.blsn \/ s.taf.hz.blsn THEN "CRIT"
     ELSE IF ~(s.met.hz.sn \/ s.taf.hz.sn) THEN "OK"
     ELSE IF atMost(s.worstVis, 500) \/ atMost(s.rvrMinAll, 300) \/ below(s.cigAll, 500)
          THEN "CRIT"
     ELSE IF atMost(s.worstVis, 800) \/ atMost(s.rvrMinAll, 500) \/ below(s.cigAll, 1000)
          THEN "HIGH"
     ELSE "MED"

\* C11: the final alert of a station is the highest, in the order
\* OK < MED < HIGH < CRIT, of the alert of the combined score, the wind
\* pillar alert and the snow pillar alert; the wind pillar alert comes from
\* the greatest gust over all wind groups of the METAR and the TAF (CRIT at
\* 40 kt or more, HIGH at 30, MED at 25, OK otherwise).
C11_AlertIsHighestOfBaseWindSnow ==
  \A i \in 1..Len(stations) :
    LET s == stations[i]
    IN /\ windPillarAlert(s.met, s.taf) = WindAlertOf(s)
       /\ s.alert = HighestOf({BaseAlertOf(s), WindAlertOf(s), SnowAlertOf(s)})

\* a TAF gust of 39 kt above a METAR gust of 25 kt lifts a station whose
\* score and snow pillar give less to HIGH
C11_Witness ==
  \E i \in 1..Len(stations) :
    LET s == stations[i]
    IN /\ GustsOf(s.metarRaw) = {25}
       /\ GustsOf(s.tafRaw) = {39}
       /\ AlertRank(BaseAlertOf(s)) < 2
       /\ AlertRank(SnowAlertOf(s)) < 2
       /\ s.alert = "HIGH"

(***************************************************************************)
(* C12: combined score and the engine-ice override.                        *)
(***************************************************************************)
\* the METAR shows a visibility of at most 150 m together with freezing fog
ShowsEngineIce(s) ==
  /\ IsNum(s.met.vis) /\ s.met.vis[1] <= 150
  /\ \E t \in WxGroupsOf(s.metarRaw) : Includes(t, <<"F","Z","F","G">>)

\* the combined score before the pillars: the METAR score or 85 % of the
\* TAF score rounded down, whichever is greater; 100 under the override
CombinedScoreOf(s) ==
  LET tafPart == CHOOSE n \in 0..100 :
                   100 * n <= 85 * s.taf.score /\ 85 * s.taf.score < 100 * (n + 1)
  IN IF ShowsEngineIce(s) THEN 100
     ELSE IF s.met.score >= tafPart THEN s.met.score ELSE tafPart

\* the least score of an alert level
ScoreFloorOf(a) ==
  CASE a = "CRIT" -> 70 [] a = "HIGH" -> 45 [] a = "MED" -> 20 [] a = "OK" -> 0

\* C12: the score before pillar escalation is max(METAR score, floor(TAF
\* score * 0.85)), replaced by 100 exactly when the METAR shows a visibility
\* of at most 150 m together with freezing fog; the final score is that
\* score lifted to the floor of the final alert, and under the override the
\* final score is 100 and the final alert is CRIT whatever the TAF holds.
C12_CombinedScoreAndEngineIce ==
  \A i \in 1..Len(stations) :
    LET s == stations[i]
    IN /\ s.engIceOps <=> ShowsEngineIce(s)
       /\ AlertRank(s.alert) >= AlertRank(alertFromScore(CombinedScoreOf(s)))
       /\ s.severityScore =
            IF CombinedScoreOf(s) >= ScoreFloorOf(s.alert) THEN CombinedScoreOf(s)
            ELSE ScoreFloorOf(s.alert)
       /\ ShowsEngineIce(s) => s.severityScore = 100 /\ s.alert = "CRIT"

\* freezing fog at 150 m with a METAR score below 70 and a forecast present:
\* the override alone makes the station CRIT with score 100
C12_Witness ==
  \E i \in 1..Len(stations) :
    LET s == stations[i]
    IN /\ ShowsEngineIce(s)
       /\ s.met.score < 70
       /\ s.tafRaw # <<>>
       /\ s.taf.score < 70
       /\ s.severityScore = 100
       /\ s.alert = "CRIT"

(***************************************************************************)
(* C13: the snow pillar.                                                   *)
(***************************************************************************)
\* the snow pillar alert expected from the weather groups of both reports
\* and the worst visibility, RVR and ceiling of the station
ExpectedSnowAlert(s) ==
  LET blowing == ShowsAny(s, {<<"B","L","S","N">>})
      snow == ShowsAny(s, {<<"S","N">>})
      vis == s.worstVis
      rvr == s.rvrMinAll
      cig == s.cigAll
  IN IF blowing THEN "CRIT"
     ELSE IF ~snow THEN "OK"
     ELSE IF \/ (vis # None /\ vis[1] <= 500)
             \/ (rvr # None /\ rvr[1] <= 300)
             \/ (cig # None /\ cig[1] < 500) THEN "CRIT"
     ELSE IF \/ (vis # None /\ vis[1] <= 800)
             \/ (rvr # None /\ rvr[1] <= 500)
             \/ (cig # None /\ cig[1] < 1000) THEN "HIGH"
     ELSE "MED"

\* C13: snowPillarAlert is CRIT whenever blowing snow is in the METAR or the
\* TAF; otherwise, with snow, CRIT if visibility <= 500 m or RVR <= 300 m or
\* ceiling < 500 ft, else HIGH if visibility <= 800 m or RVR <= 500 m or
\* ceiling < 1000 ft, else MED; without snow OK; an absent visibility, RVR
\* or ceiling satisfies no condition.  The final alert is never below it.
C13_SnowPillarAlert ==
  \A i \in 1..Len(stations) :
    LET s == stations[i]
    IN /\ snowPillarAlert(s.met, s.taf, s.worstVis, s.rvrMinAll, s.cigAll)
            = ExpectedSnowAlert(s)
       /\ AlertRank(s.alert) >= AlertRank(ExpectedSnowAlert(s))

\* snow with no visibility, no RVR and no ceiling decoded: the pillar gives
\* MED and the alert of the station is MED
C13_Witness ==
  \E i \in 1..Len(stations) :
    LET s == stations[i]
    IN /\ ShowsAny(s, {<<"S","N">>})
       /\ ~ShowsAny(s, {<<"B","L","S","N">>})
       /\ s.worstVis = None /\ s.rvrMinAll = None /\ s.cigAll = None
       /\ ExpectedSnowAlert(s) = "MED"
       /\ s.alert = "MED"

(***************************************************************************)
(* C14: the score of a report.                                             *)
(***************************************************************************)
\* the points of the first band <<limit, points>> whose limit is not below
\* the value; none when the value is absent or above every limit
RECURSIVE BandAtMost(_, _)
BandAtMost(bands, x) ==
  IF x = None \/ bands = <<>> THEN 0
  ELSE IF x[1] <= bands[1][1] THEN bands[1][2]
  ELSE BandAtMost(Tail(bands), x)

VisBands ==
  << <<150, 35>>, <<175, 30>>, <<250, 26>>, <<300, 24>>, <<500, 18>>, <<550, 16>>,
     <<800, 12>> >>

RvrBands == << <<75, 28>>, <<200, 22>>, <<300, 18>>, <<500, 12>> >>

\* ceiling bands are strict: below 500 ft and below 800 ft
CeilingBands == << <<499, 22>>, <<799, 12>> >>

HazardBonus(hz) ==
  (IF hz.ts THEN 22 ELSE 0) + (IF hz.cb THEN 12 ELSE 0) + (IF hz.fzfg THEN 18 ELSE 0)
    + (IF hz.fg THEN 14 ELSE 0) + (IF hz.sn THEN 10 ELSE 0) + (IF hz.ra THEN 8 ELSE 0)
    + (IF hz.br THEN 6 ELSE 0)

GustBonus(g) ==
  IF g = None THEN 0
  ELSE IF g[1] >= 40 THEN 10 ELSE IF g[1] >= 30 THEN 6 ELSE IF g[1] >= 25 THEN 4 ELSE 0

\* the sum of the contributions of a scored report
ScoreSumOf(r) ==
  BandAtMost(VisBands, r.vis) + BandAtMost(RvrBands, r.rvrMin)
    + BandAtMost(CeilingBands, r.cig) + HazardBonus(r.hz) + GustBonus(r.gustMax)

ScoredReportsOf(s) == {s.met, s.taf}

\* C14: the score of every report is min(100, visibility band + RVR band +
\* ceiling band + hazard bonuses + gust bonus) with the band values of the
\* classifier, and lies in 0..100.
C14_ScoreIsCappedSumOfBands ==
  \A i \in 1..Len(stations) :
    \A r \in ScoredReportsOf(stations[i]) :
      /\ r.score = (IF ScoreSumOf(r) <= 100 THEN ScoreSumOf(r) ELSE 100)
      /\ r.score \in 0..100

\* a METAR whose contributions add up to more than 100 is scored 100, next
\* to a report scored between 0 and 100
C14_Witness ==
  \E i \in 1..Len(stations) :
    LET s == stations[i]
    IN /\ ScoreSumOf(s.met) > 100
       /\ s.met.score = 100
       /\ s.taf.score = 0

(***************************************************************************)
(* C15: the decoded visibility.                                            *)
(***************************************************************************)
\* miles to metres at 1609.34 m (the page) and at 1609 m (the data job)
MilesOfPage(num, den) == (2 * num * 160934 + 100 * den) \div (200 * den)
MilesOfJob(num, den) == (2 * num * 1609 + den) \div (2 * den)

\* the value the k-th token of a report contributes as a visibility:
\* CAVOK 10000; a statute-mile fraction, added to the whole number in front
\* of it in the split form; nothing for any other token with a "/"; the
\* metres of a 4-digit group, 9999 standing for 10000; whole statute miles
VisValueAt(toks, k, miles(_, _)) ==
  LET t == toks[k]
      metres == parseInt(SubSeq(t, 1, 4))
  IN IF t = <<"C","A","V","O","K">> THEN {10000}
     ELSE IF IsFracSM(t)
       THEN IF FracDen(t) = 0 THEN {}
            ELSE IF k > 1 /\ AllDigits(toks[k - 1])
              THEN {miles(parseInt(toks[k - 1]) * FracDen(t) + FracNum(t), FracDen(t))}
            ELSE {miles(FracNum(t), FracDen(t))}
     ELSE IF Includes(t, <<"/">>) THEN {}
     ELSE IF IsIcaoVis(t)
       THEN IF k < Len(toks) /\ IsFracSM(toks[k + 1]) THEN {}
            ELSE {IF metres = 9999 THEN 10000 ELSE metres}
     ELSE IF IsPlusSM(t) THEN {miles(parseInt(SubSeq(t, 2, Len(t) - 2)), 1)}
     ELSE IF IsWholeSM(t)
       THEN {miles(parseInt(SubSeq(StripM(t), 1, Len(StripM(t)) - 2)), 1)}
     ELSE {}

\* the least value over all qualifying visibility tokens, None without one
MinVisOfTokens(raw, miles(_, _)) ==
  LET toks == SplitWs(toUpperCase(raw))
      vals == UNION {VisValueAt(toks, k, miles) : k \in 1..Len(toks)}
  IN IF vals = {} THEN None ELSE Some(CHOOSE v \in vals : \A w \in vals : v <= w)

\* the page decodes the least qualifying value of each report
C15_PageDecodesMin ==
  \A i \in 1..Len(stations) :
    /\ stations[i].met.vis = MinVisOfTokens(stations[i].metarRaw, MilesOfPage)
    /\ stations[i].taf.vis = MinVisOfTokens(stations[i].tafRaw, MilesOfPage)

\* the data job decodes the least qualifying value of each report
C15_JobDecodesMin ==
  pc # "job" =>
    /\ data.visibility_m = MinVisOfTokens(data.metarRaw, MilesOfJob)
    /\ data.taf_visibility_m = MinVisOfTokens(data.tafRaw, MilesOfJob)

\* C15: for every report the decoded visibility is the minimum over all
\* qualifying visibility tokens (CAVOK as 10000, 4-digit metre groups,
\* statute-mile forms including the split form); tokens with a "/" that are
\* not statute-mile fractions (validity ranges, RVR groups, temperature
\* groups) contribute nothing.
C15_DecodedVisibilityIsMinOfTokens ==
  C15_PageDecodesMin /\ C15_JobDecodesMin

(***************************************************************************)
(* C16: groups of four digits.                                             *)
(***************************************************************************)
\* the groups of four digits of a report when they are its only visibility
\* tokens and there is exactly one of them
OnlyVisGroups(raw) ==
  LET toks == SplitWs(toUpperCase(raw))
      groups == {k \in 1..Len(toks) : Len(toks[k]) = 4 /\ AllDigits(toks[k])}
      others == {k \in 1..Len(toks) : k \notin groups
                                       /\ VisValueAt(toks, k, MilesOfPage) # {}}
  IN IF Cardinality(groups) = 1 /\ others = {} THEN {toks[k] : k \in groups} ELSE {}

\* the metres a group of four digits stands for
MetresOfGroup(d) == IF parseInt(d) = 9999 THEN 10000 ELSE parseInt(d)

\* the page decodes the only group of a report to its metres
C16_PageDecodesGroup ==
  \A i \in 1..Len(stations) :
    /\ \A d \in OnlyVisGroups(stations[i].metarRaw) :
         stations[i].met.vis = Some(MetresOfGroup(d))
    /\ \A d \in OnlyVisGroups(stations[i].tafRaw) :
         stations[i].taf.vis = Some(MetresOfGroup(d))

\* the data job decodes the only group of a report to its metres
C16_JobDecodesGroup ==
  pc # "job" =>
    /\ \A d \in OnlyVisGroups(data.metarRaw) : data.visibility_m = Some(MetresOfGroup(d))
    /\ \A d \in OnlyVisGroups(data.tafRaw) : data.taf_visibility_m = Some(MetresOfGroup(d))

\* C16: the decoded visibility of a report whose only visibility token is
\* the group of four digits d is d for 0 <= d <= 9998 and 10000 for 9999.
C16_FourDigitGroupDecodes ==
  C16_PageDecodesGroup /\ C16_JobDecodesGroup

(***************************************************************************)
(* C17: the worst visibility of the forecast.                              *)
(***************************************************************************)
\* the lesser of two optional values
LesserOf(a, b) == IF a \o b = <<>> THEN None ELSE Some(MinOf(a \o b))

\* C17: the worst visibility of a station is the minimum over the decoded
\* METAR visibility and every visibility group found anywhere in the TAF,
\* whatever the period the group stands in: a TAF with 9999 and 1600 in
\* different periods gives 1600.
C17_WorstVisibilityOverAllTafGroups ==
  \A i \in 1..Len(stations) :
    LET s == stations[i]
    IN s.worstVis = LesserOf(s.met.vis, MinVisOfTokens(s.tafRaw, MilesOfPage))

\* a forecast of 9999 with a period of 1600 m and no METAR visibility: the
\* worst visibility of the station is 1600
C17_Witness ==
  \E i \in 1..Len(stations) :
    LET s == stations[i]
        toks == TokensOf(s.tafRaw)
    IN /\ <<"9","9","9","9">> \in toks
       /\ <<"1","6","0","0">> \in toks
       /\ <<"T","E","M","P","O">> \in toks
       /\ s.met.vis = None
       /\ s.worstVis = Some(1600)

(***************************************************************************)
(* C18: RVR groups.                                                        *)
(***************************************************************************)
\* the values of an RVR group R<rwy>[L|R|C]/[P|M]dddd[V[P|M]dddd][U|D|N]:
\* the first value and, with a variability range, the second; <<>> for
\* any other token
RvrValuesOfGroup(t) ==
  LET side == IF CharAt(t, 4) \in {"L","R","C"} THEN 1 ELSE 0
      a == IF CharAt(t, 5 + side) \in {"P","M"} THEN 6 + side ELSE 5 + side
      rest == SubSeq(t, a + 4, Len(t))
      b == IF CharAt(rest, 2) \in {"P","M"} THEN 3 ELSE 2
      range == CharAt(rest, 1) = "V" /\ DigitsAt(rest, b, 4)
      tail == IF range THEN SubSeq(rest, b + 4, Len(rest)) ELSE rest
  IN IF /\ CharAt(t, 1) = "R" /\ DigitsAt(t, 2, 2)
        /\ CharAt(t, 4 + side) = "/"
        /\ DigitsAt(t, a, 4)
        /\ tail \in {<<>>, <<"U">>, <<"D">>, <<"N">>}
       THEN <<parseInt(SubSeq(t, a, a + 3))>>
              \o (IF range THEN <<parseInt(SubSeq(rest, b, b + 3))>> ELSE <<>>)
       ELSE <<>>

\* the values of all RVR groups of a report, in the order of the text
RECURSIVE RvrValuesOfTokens(_)
RvrValuesOfTokens(toks) ==
  IF toks = <<>> THEN <<>>
  ELSE RvrValuesOfGroup(Head(toks)) \o RvrValuesOfTokens(Tail(toks))

RvrValuesOf(raw) == RvrValuesOfTokens(SplitWs(raw))

\* C18: every RVR group contributes its first value and, only with a
\* variability range, its second value; the RVR minimum of the station is
\* the minimum of the values of all groups of the METAR and the TAF, and
\* is absent when there is no group.
C18_RvrValuesAndStationMinimum ==
  \A i \in 1..Len(stations) :
    LET s == stations[i]
        all == RvrValuesOf(s.metarRaw) \o RvrValuesOf(s.tafRaw)
    IN /\ extractRvrMeters(s.metarRaw) = RvrValuesOf(s.metarRaw)
       /\ extractRvrMeters(s.tafRaw) = RvrValuesOf(s.tafRaw)
       /\ s.rvrMinAll = (IF all = <<>> THEN None ELSE Some(MinOf(all)))

\* the second value of a variability range in the TAF is the least value of
\* the station although the METAR has a group of its own
C18_Witness ==
  \E i \in 1..Len(stations) :
    LET s == stations[i]
    IN /\ RvrValuesOf(s.metarRaw) # <<>>
       /\ RvrValuesOf(s.tafRaw) = <<250, 150>>
       /\ MinOf(RvrValuesOf(s.metarRaw)) > 150
       /\ s.rvrMinAll = Some(150)

(***************************************************************************)
(* C19: the ceiling.                                                       *)
(***************************************************************************)
\* the heights in feet of the groups BKN###, OVC### and VV### of a report
CeilingHeightsOf(raw) ==
  LET isGroup(t) == \/ /\ Len(t) = 6
                       /\ SubSeq(t, 1, 3) \in {<<"B","K","N">>, <<"O","V","C">>}
                       /\ AllDigits(SubSeq(t, 4, 6))
                    \/ /\ Len(t) = 5
                       /\ SubSeq(t, 1, 2) = <<"V","V">>
                       /\ AllDigits(SubSeq(t, 3, 5))
  IN {parseInt(SubSeq(t, Len(t) - 2, Len(t))) * 100 : t \in {u \in TokensOf(raw) : isGroup(u)}}

\* the lowest of a set of heights, None for the empty set
LowestOf(hs) == IF hs = {} THEN None ELSE Some(CHOOSE h \in hs : \A g \in hs : h <= g)

\* the page takes the ceiling from the BKN, OVC and VV groups only
C19_PageCeiling ==
  \A i \in 1..Len(stations) :
    LET s == stations[i]
    IN /\ s.met.cig = LowestOf(CeilingHeightsOf(s.metarRaw))
       /\ s.taf.cig = LowestOf(CeilingHeightsOf(s.tafRaw))
       /\ s.cigAll = LowestOf(CeilingHeightsOf(s.metarRaw) \cup CeilingHeightsOf(s.tafRaw))

\* the data job takes the ceiling from the BKN, OVC and VV groups only
C19_JobCeiling ==
  pc # "job" =>
    data.ceiling_ft = LowestOf(CeilingHeightsOf(data.metarRaw) \cup CeilingHeightsOf(data.tafRaw))

\* C19: the ceiling is the lowest height (### x 100 ft) among the groups
\* BKN###, OVC### and VV### only; FEW and SCT groups and CAVOK never give
\* a ceiling, and a report without BKN/OVC/VV group has no ceiling.
C19_CeilingFromBknOvcVvOnly ==
  C19_PageCeiling /\ C19_JobCeiling

(***************************************************************************)
(* C20: station identifiers that look like weather codes.                  *)
(***************************************************************************)
\* the groups of a report behind its type word and station identifier
BodyOf(raw) ==
  LET t == SplitWs(raw) IN IF Len(t) <= 2 THEN <<>> ELSE SubSeq(t, 3, Len(t))

\* a group that starts with TS, +TS, -TS or VCTS
StartsWithTs(t) ==
  \/ LitAt(t, 1, <<"T","S">>) \/ LitAt(t, 1, <<"+","T","S">>)
  \/ LitAt(t, 1, <<"-","T","S">>) \/ LitAt(t, 1, <<"V","C","T","S">>)

\* a report with no weather group behind the identifier: visibility and wind only
NoWeatherGroup(raw) ==
  LET b == BodyOf(raw)
  IN \A k \in 1..Len(b) :
       \/ AllDigits(b[k])
       \/ Len(b[k]) > 2 /\ SubSeq(b[k], Len(b[k]) - 1, Len(b[k])) = <<"K","T">>

NoFlagSet(hz) == \A f \in DOMAIN hz : ~hz[f]

\* hazardFlags sets nothing from the identifier
C20_HazardFlagsIgnoreIdentifier ==
  \A i \in 1..Len(stations) :
    LET s == stations[i]
    IN /\ NoWeatherGroup(s.metarRaw) => NoFlagSet(s.met.hz)
       /\ NoWeatherGroup(s.tafRaw) => NoFlagSet(s.taf.hz)

\* thunderstorm is flagged by the groups that start with TS, +TS, -TS or VCTS
C20_ThunderstormByLeadingTs ==
  \A i \in 1..Len(stations) :
    LET s == stations[i]
        ts(raw) == \E k \in 1..Len(BodyOf(raw)) : StartsWithTs(BodyOf(raw)[k])
    IN /\ s.met.hz.ts <=> ts(s.metarRaw)
       /\ s.taf.hz.ts <=> ts(s.tafRaw)

\* the TS/CB flag of the OM layer is not set from the identifier
C20_OmTsOrCbIgnoresIdentifier ==
  \A i \in 1..Len(stations) :
    LET s == stations[i]
    IN /\ NoWeatherGroup(s.metarRaw) => ~s.omMet.tsOrCb
       /\ NoWeatherGroup(s.tafRaw) => ~s.omTaf.tsOrCb
       /\ (NoWeatherGroup(s.metarRaw) /\ NoWeatherGroup(s.tafRaw)) => ~s.om.tsOrCb

\* C20: for a report whose station identifier is or ends in a weather code,
\* with no such weather group behind it, no hazard flag is set from the
\* identifier: the flags of hazardFlags stay false, thunderstorm is flagged
\* only by groups that start with (signed) TS or VCTS, and the TS/CB flag
\* of the OM layer stays false.
C20_NoHazardFromStationIdentifier ==
  /\ C20_HazardFlagsIgnoreIdentifier
  /\ C20_ThunderstormByLeadingTs
  /\ C20_OmTsOrCbIgnoresIdentifier

(***************************************************************************)
(* C22: nothing parsed.                                                    *)
(***************************************************************************)
\* no visibility, RVR, ceiling, gust, temperature or hazard in the fields
\* of one report
AllAbsent(m) ==
  /\ m.vis = None /\ m.rvrMin = None /\ m.cig = None
  /\ m.gustMax = None /\ m.tempC = None
  /\ NoFlagSet(m.hz)

\* the boolean flags of an OM flag record
OmBooleanFlags ==
  {"toProhib", "tsOrCb", "heavyPrecip", "va", "lvto", "lvp", "lvtoQualReq",
   "rvr125", "rvrRequired", "cat2Plus", "cat3Only", "cat3BelowMin",
   "coldcorr", "xwindExceed", "noOpsLikely"}

\* no wind group among the groups of a report
NoWindGroup(raw) ==
  \A t \in TokensOf(raw) :
    ~(Len(t) > 2 /\ SubSeq(t, Len(t) - 1, Len(t)) = <<"K","T">>)

C23_MisuseIsRejected ==
  Len(data.icao) # 4 => pc # "shown"

(***************************************************************************)
(* C25: the take-off absolute minimum.                                     *)
(***************************************************************************)
\* C25: the absolute-minimum flag (< 125 m) comes from the RVR when the
\* report has one and from the visibility otherwise, as LVTO and LVP do: a
\* report without RVR group and with a visibility below 125 m sets it.
C25_AbsoluteMinimumFromRvrOrVisibility ==
  \A i \in 1..Len(stations) :
    LET s == stations[i]
        below(rvr, vis) == IF IsNum(rvr) THEN rvr[1] < 125
                           ELSE IsNum(vis) /\ vis[1] < 125
    IN /\ s.omMet.rvr125 <=> below(s.met.rvrMin, s.met.vis)
       /\ s.omTaf.rvr125 <=> below(s.taf.rvrMin, VisMinOf(<<>>, s.tafRaw))

(***************************************************************************)
(* C26: nested threshold flags.                                            *)
(***************************************************************************)

\* the bands of each family from the loosest to the tightest
MinFamily == <<"lvto", "lvp", "lvtoQualReq", "rvr125">>
CatFamily == <<"cat2Plus", "cat3Only", "cat3BelowMin">>
BandNameOf ==
  [lvto |-> "lvto", lvp |-> "lvp", lvtoQualReq |-> "lvto150", rvr125 |-> "rvr125",
   cat2Plus |-> "cat2plus", cat3Only |-> "cat3only", cat3BelowMin |-> "cat3min"]

\* the name of the last (tightest) flag of a family that is true
TightestOf(om, family) ==
  LET set == {k \in 1..Len(family) : om[family[k]]}
  IN IF set = {} THEN "null"
     ELSE BandNameOf[family[CHOOSE k \in set : \A j \in set : j <= k]]

\* C26: in every computeOmFlags result rvr125 => lvtoQualReq => lvp => lvto
\* and cat3BelowMin => cat3Only => cat2Plus => lvto, and the band given by
\* omMinBand and omCatBand is the tightest true flag of its family.
C26_ThresholdFlagsNested ==
  \A i \in 1..Len(stations) :
    \A om \in {stations[i].om, stations[i].omMet, stations[i].omTaf} :
      /\ om.rvr125 => om.lvtoQualReq
      /\ om.lvtoQualReq => om.lvp
      /\ om.lvp => om.lvto
      /\ om.cat3BelowMin => om.cat3Only
      /\ om.cat3Only => om.cat2Plus
      /\ om.cat2Plus => om.lvto
      /\ omMinBand(om) = TightestOf(om, MinFamily)
      /\ omCatBand(om) = TightestOf(om, CatFamily)

\* every band of both families is surfaced by some evaluation
C26_Witness ==
  \E i \in 1..Len(stations) :
    /\ stations[i].omMet.rvr125 /\ omCatBand(stations[i].omMet) = "cat3min"
    /\ omMinBand(stations[i].omTaf) = "lvp"
    /\ omCatBand(stations[i].omTaf) = "cat2plus"

(***************************************************************************)
(* C24: the row order and the roles.                                       *)
(***************************************************************************)
\* C24: in the priority order the rows come by role, BASE before
\* DESTINATION before ALTERNATE before OTHER: of two rows with different
\* roles the one with the higher role is first.
C24_RowsOrderedByRole ==
  view.sortPri =>
    \A i \in 1..Len(rows) : \A j \in 1..Len(rows) :
      i < j => roleRank(getRole(rows[i].icao)) <= roleRank(getRole(rows[j].icao))

(***************************************************************************)
(* C21: no memory between evaluations.                                     *)
(***************************************************************************)
\* the extracted fields, the score, the alert and the OM flags of a station
EvaluationOf(s) ==
  [met |-> s.met, taf |-> s.taf, worstVis |-> s.worstVis, rvrMinAll |-> s.rvrMinAll,
   cigAll |-> s.cigAll, engIceOps |-> s.engIceOps, severityScore |-> s.severityScore,
   alert |-> s.alert, triggers |-> s.triggers,
   om |-> s.om, omMet |-> s.omMet, omTaf |-> s.omTaf]

SameReports(a, b) ==
  a.icao = b.icao /\ a.metarRaw = b.metarRaw /\ a.tafRaw = b.tafRaw

\* the runway table had reached the page when the list was evaluated: the
\* crosswind of a station is there
TableInPlace(list) == \E k \in 1..Len(list) : list[k].om.xwindKt # None

ObsGroupOf(raw) ==
  LET t == SplitWs(raw)
      is(k) == Len(t[k]) = 7 /\ AllDigits(SubSeq(t[k], 1, 6)) /\ t[k][7] = "Z"
      ks == {k \in 1..Len(t) : is(k)}
  IN IF ks = {} THEN <<>> ELSE t[CHOOSE k \in ks : \A j \in ks : k <= j]

\* a step that renders the table
RenderStep == pc' = "shown" /\ (pc = "latest" \/ view' # view)

\* what a render does with the row of station st, from the stored state
\* prev to the stored state next, with byVis(old, new) for the symbol of a
\* render with a new group
TrendRule(st, text, prev, next, byVis(_, _)) ==
  LET ic == st.icao
      obs == ObsGroupOf(st.metarRaw)
      vis == IF st.met.vis = None THEN <<>> ELSE StringOf(st.met.vis[1])
      kept == (ic \in DOMAIN next) = (ic \in DOMAIN prev)
                /\ (ic \in DOMAIN prev => next[ic] = prev[ic])
  IN IF obs = <<>> THEN text = "DASH" /\ kept
     ELSE IF ic \notin DOMAIN prev
       THEN text = "NEW" /\ next[ic] = [obs |-> obs, vis |-> vis, trend |-> "NEW"]
     ELSE IF prev[ic].obs = obs THEN text = prev[ic].trend /\ kept
     ELSE /\ text = byVis(prev[ic].vis, st.met.vis)
          /\ next[ic] = [obs |-> obs, vis |-> vis, trend |-> text]

\* the symbol by the two visibilities, when both are there
ByBoth(old, new) ==
  IF new[1] < parseInt(old) THEN "DOWN"
  ELSE IF new[1] > parseInt(old) THEN "UP" ELSE "FLAT"

\* NEW when one of the two visibilities is missing
ByBothOrNew(old, new) == IF old = <<>> \/ new = None THEN "NEW" ELSE ByBoth(old, new)

\* always one of the three comparison symbols: a missing visibility counts
\* as no change
ByBothOnly(old, new) == IF old = <<>> \/ new = None THEN "FLAT" ELSE ByBoth(old, new)

RenderedBy(byVis(_, _)) ==
  RenderStep =>
    \A i \in 1..Len(rows') :
      \E k \in 1..Len(stations') :
        /\ stations'[k].icao = rows'[i].icao
        /\ TrendRule(stations'[k], rows'[i].trend, localStorage.prevMetar,
                     localStorage'.prevMetar, byVis)

\* C27 (amended): a render without time group gives the dash and stores
\* nothing; the first render with a group stores the state and gives NEW; a
\* render with the stored group gives the stored symbol and leaves the
\* stored state; a render with a new group gives down, up or flat by the
\* two METAR visibilities when both are there and NEW otherwise, and stores
\* the group, the visibility and the symbol.
C27_TrendChangesWithNewMetar ==
  [][RenderedBy(ByBothOrNew)]_vars

\* C27 as stated: a render with a new group gives down, up or flat
C27_NewGroupGivesComparison ==
  [][RenderedBy(ByBothOnly)]_vars

\* the visibility went down with a new METAR and the symbol is stored
C27_Witness ==
  /\ pc = "shown" /\ Len(rows) = 1 /\ rows[1].trend = "DOWN"
  /\ localStorage.prevMetar[StationIcao].trend = "DOWN"
  /\ localStorage.prevMetar[StationIcao].obs = ObsGroupOf(stations[1].metarRaw)

(***************************************************************************)
(* C28: the caps and the time window of the local history.                 *)
(***************************************************************************)
IsPrefix(a, b) == Len(a) <= Len(b) /\ a = SubSeq(b, 1, Len(a))
IsSuffix(a, b) == Len(a) <= Len(b) /\ a = SubSeq(b, Len(b) - Len(a) + 1, Len(b))

\* the entries of a list whose timestamp is inside the window at hour clock
InWindow(list, clock) ==
  LET in(e) == e.t = None \/ e.t[1] >= clock - 48 IN SelectSeq(list, in)

\* a list written at hour clock holds at most cap entries, none older than
\* the window
CappedAndFresh(list, cap, clock) ==
  /\ Len(list) <= cap
  /\ \A k \in 1..Len(list) : list[k].t # None => list[k].t[1] >= clock - 48

\* a newest-first list after at most added entries were put in front of
\* old: what is left of old are its newest entries, all of the window's
\* when the cap did not cut
NewestFirstKept(list, old, cap, added, clock) ==
  \E j \in 0..added :
    /\ j <= Len(list)
    /\ IsPrefix(SubSeq(list, j + 1, Len(list)), InWindow(old, clock))
    /\ Len(list) < cap => SubSeq(list, j + 1, Len(list)) = InWindow(old, clock)

\* an oldest-first list after a point of hour t was put behind old: the
\* point is the last one when the window holds it, and what is left of old
\* are its newest points, all of the window's when the cap did not cut
NewestLastKept(list, old, cap, t, clock) ==
  LET in == t >= clock - 48
      rest == IF in /\ list # <<>> THEN SubSeq(list, 1, Len(list) - 1) ELSE list
  IN /\ in => list # <<>> /\ list[Len(list)].t = Some(t)
     /\ IsSuffix(rest, InWindow(old, clock))
     /\ Len(list) < cap => rest = InWindow(old, clock)

ListOf(store, icao) == IF icao \in DOMAIN store THEN store[icao] ELSE <<>>

\* C28: a written refresh list holds at most 200 entries, a written event
\* list of a station at most 300 and a written series at most 500, none
\* with a timestamp more than 48 hours before the write, and what the cap
\* drops are the oldest entries.  Every dataset of SpecStats holds every
\* station that has a snapshot, so a refresh that writes the refresh list
\* writes the series of each of them.
C28_HistoryCappedAndFresh ==
  [][ /\ localStorage'.history # localStorage.history =>
           /\ CappedAndFresh(localStorage'.history, 200, now')
           /\ localStorage'.history[1].t = Some(now')
           /\ NewestFirstKept(localStorage'.history, localStorage.history, 200, 1, now')
      /\ \A icao \in DOMAIN localStorage'.events :
           ListOf(localStorage.events, icao) # localStorage'.events[icao] =>
             /\ CappedAndFresh(localStorage'.events[icao], 300, now')
             /\ NewestFirstKept(localStorage'.events[icao],
                                ListOf(localStorage.events, icao), 300, 6, now')
      /\ localStorage'.history # localStorage.history =>
           \A icao \in DOMAIN localStorage'.snaps :
             /\ icao \in DOMAIN localStorage'.series
             /\ CappedAndFresh(localStorage'.series[icao], 500, now')
             /\ NewestLastKept(localStorage'.series[icao],
                               ListOf(localStorage.series, icao), 500,
                               localStorage'.snaps[icao].t[1], now') ]_vars

\* the three lists are at their caps after the caps have cut: the last
\* event is the last but one of the stored ones, the first point is the
\* second of the stored ones
C28_Witness ==
  /\ now > MAX_AGE_HOURS
  /\ Len(localStorage.history) = 200 /\ localStorage.history[1].t = Some(now)
  /\ StationIcao \in DOMAIN localStorage.events
  /\ Len(localStorage.events[StationIcao]) = 300
  /\ localStorage.events[StationIcao][300] = UsedStorage.events[StationIcao][298]
  /\ Len(localStorage.series[StationIcao]) = 500
  /\ localStorage.series[StationIcao][1] = UsedStorage.series[StationIcao][2]

\* entries have left the lists by age
C28_WitnessAged ==
  /\ StationIcao \in DOMAIN localStorage.series
  /\ localStorage.series[StationIcao] # <<>>
  /\ Len(localStorage.series[StationIcao]) < 400
  /\ Len(localStorage.history) \in 100..199

(***************************************************************************)
(* C29: what a refresh records.                                            *)
(***************************************************************************)
\* C29: the local history changes only in a refresh whose dataset has a
\* generatedAt other than the last one recorded.
C29_RecordsOnlyNewDatasets ==
  [][localStorage' # localStorage => lastGeneratedAt' # lastGeneratedAt]_vars

(***************************************************************************)
(* C30: the exports of the Settings page.                                  *)
(***************************************************************************)
\* the lines of the exported airports.txt
ExportedWatchlist(as, rs) ==
  LET txt == buildExports(as, rs).airportsTxt
      lines == splitAt(txt, {"\n"}, <<>>)
  IN IF txt = <<>> THEN <<>> ELSE SubSeq(lines, 1, Len(lines) - 1)

ExportedRoles(as, rs) == buildExports(as, rs).rolesObj

ElementsOf(list) == {list[k] : k \in 1..Len(list)}

\* the exports are well formed
ExportsWellFormed(as, rs) ==
  LET w == ExportedWatchlist(as, rs)
      r == ExportedRoles(as, rs)
  IN /\ \A k \in 1..Len(w) :
          /\ Len(w[k]) = 4
          /\ \A c \in 1..4 : IsDigit(w[k][c]) \/ w[k][c] \in UpperSet
     /\ \A i, j \in 1..Len(w) : w[i] = w[j] => i = j
     /\ \A k \in 1..Len(r) :
          /\ r[k].key \in ElementsOf(w)
          /\ r[k].value \in {<<"B","A","S","E">>, <<"D","E","S","T">>, <<"A","L","T">>}
     /\ \A i, j \in 1..Len(r) : r[i].key = r[j].key => i = j

\* the step loads a configuration
IsLoad ==
  \E c \in LoadedConfigs :
    /\ airports' = parseAirportsTxt(c.airportsTxt)
    /\ roles' = sanitizeRoles(c.roles, 1, <<>>)

\* the watchlist after the step is the one before it with airports put
\* behind it or with one airport taken out, whose role is gone
KeepsInsertionOrder ==
  LET w == ExportedWatchlist(airports, roles)
      v == ExportedWatchlist(airports', roles')
      stays(x) == x \in ElementsOf(v)
  IN \/ IsPrefix(w, v)
     \/ /\ Len(v) = Len(w) - 1
        /\ v = SelectSeq(w, stays)
        /\ \A x \in ElementsOf(w) \ ElementsOf(v) : x \notin DOMAIN roles'

\* C30: after every operation of the Settings page the exported watchlist
\* holds identifiers of four capital letters or digits, none twice, and
\* the exported roles hold only airports of the watchlist, each once, with
\* BASE, DEST or ALT; an operation other than a load leaves the airports
\* in their order, puts new ones behind them or takes one out together
\* with its role; no role is kept for something that is no identifier.
C30_ExportsAreWellFormed ==
  [][ /\ ExportsWellFormed(airports', roles')
      /\ \A x \in DOMAIN roles' : Len(x) = 4 /\ roles'[x] \in {<<"B","A","S","E">>, <<"D","E","S","T">>, <<"A","L","T">>}
      /\ IsLoad \/ KeepsInsertionOrder ]_vars

\* an airport was added behind the loaded ones with a role, and a role is
\* held for an airport that is not on the watchlist and is not exported
C30_Witness ==
  /\ Len(airports) = 3 /\ airports[3] = <<"L","I","R","A">>
  /\ <<"L","I","R","A">> \in DOMAIN roles /\ roles[<<"L","I","R","A">>] = <<"D","E","S","T">>
  /\ <<"K","J","F","K">> \in DOMAIN roles
  /\ \A k \in 1..Len(ExportedRoles(airports, roles)) :
       ExportedRoles(airports, roles)[k].key # <<"K","J","F","K">>
  /\ Len(ExportedRoles(airports, roles)) >= 1

=============================================================================
